---- MODULE Spec2Model ----
(***************************************************************************)
(* Model of the joke-cli core: the text cleaner, the JokeResponse and      *)
(* FeedbackEntry records, JokeService.generate_joke and                    *)
(* collect_user_feedback, and the JSON feedback store.                     *)
(*                                                                         *)
(* Text is a sequence of one-character strings, so that strip, lower,      *)
(* startswith, slicing and split work on characters as in Python.          *)
(* Messages are sequences of pieces (the literal parts and the formatted   *)
(* arguments of a format string); the empty string is the empty sequence.  *)
(***************************************************************************)
EXTENDS Integers, Sequences, FiniteSets, TLC

VARIABLES call, storage_file, op, saved, history, gateway, run, writers, prompting,
          service

vars == <<call, storage_file, op, saved, history, gateway, run, writers, prompting,
          service>>

(***************************************************************************)
(* Bounds                                                                  *)
(***************************************************************************)
\* number of pieces the gateway's raw text is composed of
MaxChunks == 3
\* number of records the storage file may hold
MaxEntries == 3
\* number of invoke_model calls made on one BedrockClient instance
MaxCalls == 2
\* the rating prompts of one prompt_for_feedback call
MaxPrompts == 3

\* number of transient failures in a row the provider may answer with
MaxTransient == 1

(***************************************************************************)
(* Python values                                                           *)
(***************************************************************************)
None == "<None>"
NoneMsg == <<None>>

Min(S) == CHOOSE x \in S : \A y \in S : x <= y

\* str.format / f-string: the pieces in order, empty pieces vanish
Fmt(pieces) == SelectSeq(pieces, LAMBDA p : p # "")

\* truthiness of an Optional[str] message
Truthy(m) == m # NoneMsg /\ m # <<>>

\* substring test on messages, piece-wise
Contains(m, s) == s = "" \/ \E i \in 1..Len(m) : m[i] = s

(***************************************************************************)
(* str methods on character sequences                                      *)
(***************************************************************************)
Whitespace == {" ", "\n", "\t"}

UpperChars == <<"A", "B", "C", "D", "E", "F", "G", "H", "I", "J", "K", "L", "M",
                "N", "O", "P", "Q", "R", "S", "T", "U", "V", "W", "X", "Y", "Z">>
LowerChars == <<"a", "b", "c", "d", "e", "f", "g", "h", "i", "j", "k", "l", "m",
                "n", "o", "p", "q", "r", "s", "t", "u", "v", "w", "x", "y", "z">>

LowerOf == [u \in {UpperChars[i] : i \in 1..26} |->
              LowerChars[CHOOSE i \in 1..26 : UpperChars[i] = u]]

lower_char(c) == IF c \in DOMAIN LowerOf THEN LowerOf[c] ELSE c

lower(s) == [i \in 1..Len(s) |-> lower_char(s[i])]

RECURSIVE lstrip(_)
lstrip(s) == IF s # <<>> /\ Head(s) \in Whitespace THEN lstrip(Tail(s)) ELSE s

RECURSIVE rstrip(_)
rstrip(s) ==
  IF s # <<>> /\ s[Len(s)] \in Whitespace THEN rstrip(SubSeq(s, 1, Len(s) - 1)) ELSE s

strip(s) == rstrip(lstrip(s))

startswith(s, p) == Len(p) <= Len(s) /\ SubSeq(s, 1, Len(p)) = p

endswith(s, p) == Len(p) <= Len(s) /\ SubSeq(s, Len(s) - Len(p) + 1, Len(s)) = p

RECURSIVE split_lines(_)
split_lines(s) ==
  LET idx == {i \in 1..Len(s) : s[i] = "\n"}
  IN  IF idx = {} THEN <<s>>
      ELSE <<SubSeq(s, 1, Min(idx) - 1)>> \o split_lines(SubSeq(s, Min(idx) + 1, Len(s)))

RECURSIVE join_lines(_)
join_lines(lines) ==
  IF lines = <<>> THEN <<>>
  ELSE IF Len(lines) = 1 THEN lines[1]
  ELSE lines[1] \o <<"\n">> \o join_lines(Tail(lines))

(***************************************************************************)
(* JokeService._clean_joke_text                                            *)
(***************************************************************************)
prefixes_to_remove ==
  << <<"H", "e", "r", "e", "'", "s", " ", "a", " ", "j", "o", "k", "e", " ", "f", "o", "r", " ", "y", "o", "u", ":">>,
     <<"H", "e", "r", "e", "'", "s", " ", "a", " ", "j", "o", "k", "e", ":">>,
     <<"J", "o", "k", "e", ":">>,
     <<"H", "e", "r", "e", " ", "y", "o", "u", " ", "g", "o", ":">>,
     <<"S", "u", "r", "e", ",", " ", "h", "e", "r", "e", "'", "s", " ", "a", " ", "j", "o", "k", "e", ":">>,
     <<"H", "e", "r", "e", "'", "s", " ", "o", "n", "e", ":">> >>

suffixes_to_remove ==
  << <<"H", "o", "p", "e", " ", "y", "o", "u", " ", "e", "n", "j", "o", "y", "e", "d", " ", "i", "t", "!">>,
     <<"H", "o", "p", "e", " ", "t", "h", "a", "t", " ", "m", "a", "d", "e", " ", "y", "o", "u", " ", "s", "m", "i", "l", "e", "!">>,
     <<"I", " ", "h", "o", "p", "e", " ", "y", "o", "u", " ", "f", "o", "u", "n", "d", " ", "t", "h", "a", "t", " ", "f", "u", "n", "n", "y", "!">>,
     <<"D", "i", "d", " ", "y", "o", "u", " ", "l", "i", "k", "e", " ", "i", "t", "?">> >>

\* the first loop: the first prefix of the list that matches is cut, then break
remove_prefix(cleaned) ==
  LET low  == lower(cleaned)
      hits == {i \in 1..Len(prefixes_to_remove) :
                 startswith(low, lower(prefixes_to_remove[i]))}
  IN  IF hits = {} THEN cleaned
      ELSE strip(SubSeq(cleaned, Len(prefixes_to_remove[Min(hits)]) + 1, Len(cleaned)))

\* the second loop: the first suffix of the list that matches is cut, then break
remove_suffix(cleaned) ==
  LET low  == lower(cleaned)
      hits == {i \in 1..Len(suffixes_to_remove) :
                 endswith(low, lower(suffixes_to_remove[i]))}
  IN  IF hits = {} THEN cleaned
      ELSE strip(SubSeq(cleaned, 1, Len(cleaned) - Len(suffixes_to_remove[Min(hits)])))

\* lines = [line.strip() for line in cleaned.split('\n') if line.strip()]
normalize_lines(cleaned) ==
  LET lines == split_lines(cleaned)
      kept  == SelectSeq(lines, LAMBDA l : strip(l) # <<>>)
  IN  join_lines([i \in 1..Len(kept) |-> strip(kept[i])])

clean_joke_text(joke_text) ==
  normalize_lines(remove_suffix(remove_prefix(strip(joke_text))))

(***************************************************************************)
(* config.py and prompts.py                                                *)
(***************************************************************************)
AVAILABLE_CATEGORIES == <<"general", "programming", "dad-jokes", "puns", "clean">>

validate_category(category) ==
  \E i \in 1..Len(AVAILABLE_CATEGORIES) : AVAILABLE_CATEGORIES[i] = category

\* ", ".join(get_available_categories())
RECURSIVE join_comma(_)
join_comma(names) ==
  IF names = <<>> THEN <<>>
  ELSE IF Len(names) = 1 THEN <<names[1]>>
  ELSE <<names[1], ", ">> \o join_comma(Tail(names))

\* ErrorHandler.format_error_message for the two codes generate_joke uses;
\* the result keeps "message" and "guidance" apart as the dictionary does
format_error_message(error_code, category, available_categories) ==
  IF error_code = "invalid_category"
  THEN [message  |-> Fmt(<<"Invalid joke category '", category, "'.">>),
        guidance |-> <<Fmt(<<"Available categories: ">> \o available_categories),
                       <<"Use --help to see all available options.">>>>]
  ELSE [message  |-> <<"The AI model returned an empty response.">>,
        guidance |-> <<<<"This can happen occasionally:">>,
                       <<"  1. Try generating another joke">>,
                       <<"  2. Try a different category">>,
                       <<"  3. If this persists, there may be an issue with the model">>>>]

(***************************************************************************)
(* models.py: JokeResponse                                                 *)
(***************************************************************************)
UUID1 == "6f1c2c1e-0000-4000-8000-000000000001"
UUID2 == "6f1c2c1e-0000-4000-8000-000000000002"
IsUUID(s) == s \in {UUID1, UUID2}

Datetime(sec, usec) == [kind |-> "datetime", sec |-> sec, usec |-> usec]
IsDatetime(t) == t.kind = "datetime"

NoResponse ==
  [joke_id |-> "", joke_text |-> <<>>, category |-> "", success |-> FALSE,
   timestamp |-> [kind |-> "none", sec |-> 0, usec |-> 0], error_message |-> NoneMsg]

\* JokeResponse.validate: the message of the ValueError it raises, or NoneMsg
JokeResponse_validate(self) ==
  IF self.joke_id = "" THEN <<"joke_id must be a non-empty string">>
  ELSE IF ~IsUUID(self.joke_id) THEN <<"joke_id must be a valid UUID string">>
  ELSE IF self.category = "" THEN <<"category must be a non-empty string">>
  ELSE IF ~IsDatetime(self.timestamp) THEN <<"timestamp must be a datetime object">>
  ELSE IF self.success /\ strip(self.joke_text) = <<>>
       THEN <<"Successful responses must have non-empty joke_text">>
  ELSE IF ~self.success /\ ~Truthy(self.error_message)
       THEN <<"Failed responses must have an error_message">>
  ELSE NoneMsg

\* the dataclass constructor: __init__ then __post_init__ -> validate
JokeResponse_new(joke_id, joke_text, category, success, timestamp, error_message) ==
  LET self == [joke_id |-> joke_id, joke_text |-> joke_text, category |-> category,
               success |-> success, timestamp |-> timestamp,
               error_message |-> error_message]
      err  == JokeResponse_validate(self)
  IN  [ok |-> err = NoneMsg, exc |-> err, obj |-> IF err = NoneMsg THEN self ELSE NoResponse]

create_success(joke_text, category, id, now) ==
  JokeResponse_new(id, joke_text, category, TRUE, now, NoneMsg)

create_error(error_message, category, id, now) ==
  JokeResponse_new(id, <<>>, category, FALSE, now, error_message)

(***************************************************************************)
(* JokeService.generate_joke                                               *)
(***************************************************************************)
\* what client.invoke_model does in one call: returns text or raises
GwText(t)   == [kind |-> "text", text |-> t, msg |-> <<>>]
GwRaise(k, m) == [kind |-> k, text |-> <<>>, msg |-> m]
GwNotCalled == [kind |-> "not called", text |-> <<>>, msg |-> <<>>]

Returned(resp, n, gw) ==
  [raised |-> "none", exc |-> NoneMsg, response |-> resp, invoked |-> n, gw |-> gw]
Raised(kind, m, n, gw) ==
  [raised |-> kind, exc |-> m, response |-> NoResponse, invoked |-> n, gw |-> gw]

\* BedrockConfig.validate on the model id (the other fields are the constants)
BedrockConfig_ok(model_id) == model_id # ""

\* prompts.get_joke_prompt raises ValueError for a key JOKE_PROMPTS lacks
JOKE_PROMPTS_keys == {"general", "programming", "dad-jokes", "puns", "clean"}

get_joke_prompt_error(category) ==
  IF category \in JOKE_PROMPTS_keys THEN NoneMsg
  ELSE Fmt(<<"Invalid category '", category, "'. Available categories: ">>
           \o join_comma(AVAILABLE_CATEGORIES))

\* a variant that lets every category through to the gateway
before_invoke_unchecked(category_arg, category, model_id) ==
  IF ~BedrockConfig_ok(model_id)
  THEN [step |-> "raise", exc |-> <<"model_id must be a non-empty string">>]
  ELSE [step |-> "invoke", exc |-> NoneMsg]

\* generate_joke up to the gateway call: category validation, prompt lookup
\* and BedrockConfig construction, in that order
before_invoke(category_arg, category, model_id) ==
  IF category_arg # None /\ ~validate_category(category_arg)
  THEN [step |-> "invalid category", exc |-> NoneMsg]
  ELSE IF get_joke_prompt_error(category) # NoneMsg
  THEN [step |-> "raise", exc |-> get_joke_prompt_error(category)]
  ELSE IF ~BedrockConfig_ok(model_id)
  THEN [step |-> "raise", exc |-> <<"model_id must be a non-empty string">>]
  ELSE [step |-> "invoke", exc |-> NoneMsg]

\* a variant without the emptiness test
never_empty(cleaned_joke) == FALSE

\* if not cleaned_joke.strip()
empty_after_cleaning(cleaned_joke) == strip(cleaned_joke) = <<>>

\* a variant that catches everything that is raised
except_BaseException(kind) == TRUE

\* what an `except Exception` clause catches: KeyboardInterrupt and
\* SystemExit derive from BaseException only
except_Exception(kind) == kind \notin {"KeyboardInterrupt", "SystemExit"}

generate_joke(category_arg, model_id_arg, rnd, gw, id, now) ==
  LET category == IF category_arg = None THEN rnd ELSE category_arg
      model_id == IF model_id_arg = None THEN "us.anthropic.claude-sonnet-4-20250514-v1:0"
                  ELSE model_id_arg
      \* category or "unknown"
      cat_or   == IF category = "" THEN "unknown" ELSE category
      \* except Exception as e: create_error(f"Unexpected error: {e}", ...)
      unexpected(m, n, g) ==
        LET r == create_error(Fmt(<<"Unexpected error: ">> \o m), cat_or, id, now)
        IN  IF r.ok THEN Returned(r.obj, n, g) ELSE Raised("ValueError", r.exc, n, g)
      \* except BedrockClientError as e: create_error(str(e), ...)
      bedrock_error(m, n, g) ==
        LET r == create_error(m, cat_or, id, now)
        IN  IF r.ok THEN Returned(r.obj, n, g) ELSE Raised("ValueError", r.exc, n, g)
      \* anything a constructor raises inside the try block is a ValueError,
      \* which the except Exception clause handles
      in_try(r, n, g) == IF r.ok THEN Returned(r.obj, n, g) ELSE unexpected(r.exc, n, g)
      before == before_invoke(category_arg, category, model_id)
  IN  IF before.step = "invalid category"
      THEN in_try(create_error(
                    format_error_message("invalid_category", category_arg,
                                         join_comma(AVAILABLE_CATEGORIES)).message,
                    category_arg, id, now), 0, GwNotCalled)
      ELSE IF before.step = "raise" THEN unexpected(before.exc, 0, GwNotCalled)
      ELSE IF gw.kind = "BedrockClientError" THEN bedrock_error(gw.msg, 1, gw)
      ELSE IF gw.kind # "text"
      THEN IF except_Exception(gw.kind) THEN unexpected(gw.msg, 1, gw)
           ELSE Raised(gw.kind, gw.msg, 1, gw)
      ELSE LET cleaned_joke == clean_joke_text(gw.text)
           IN  IF empty_after_cleaning(cleaned_joke)
               THEN in_try(create_error(
                             format_error_message("empty_response", "", <<>>).message,
                             category, id, now), 1, gw)
               ELSE in_try(create_success(cleaned_joke, category, id, now), 1, gw)

(***************************************************************************)
(* Inputs of the service specification                                     *)
(***************************************************************************)
CategoryArgs == {None, "general", "puns", "invalid-category", ""}
ModelIdArgs == {None, ""}

\* the category argument and, when it is omitted, what random.choice picks
CategoryChoices ==
       {<<c, c>> : c \in CategoryArgs \ {None}}
  \cup {<<None, AVAILABLE_CATEGORIES[i]>> : i \in 1..Len(AVAILABLE_CATEGORIES)}

Chunks ==
  { <<" ">>, <<"\n">>,
    prefixes_to_remove[3],
    lower(suffixes_to_remove[1]),
    <<"H", "a">> }

RECURSIVE concat(_)
concat(parts) == IF parts = <<>> THEN <<>> ELSE Head(parts) \o concat(Tail(parts))

RawTexts == {concat(cs) : cs \in UNION {[1..n -> Chunks] : n \in 0..MaxChunks}}

GatewayOutcomes ==
       {GwText(t) : t \in RawTexts}
  \cup {GwRaise("BedrockClientError", m) : m \in {<<>>, <<"Access denied to Bedrock model">>}}
  \cup {GwRaise("Exception", m) : m \in {<<>>, <<"boom">>}}

Now == Datetime(1, 0)

NoCall ==
  [op |-> "none", category |-> None, model_id |-> None, raised |-> "none",
   exc |-> NoneMsg, response |-> NoResponse, invoked |-> 0, gw |-> GwNotCalled]

CallOf(name, category, model_id, r) ==
  [op |-> name, category |-> category, model_id |-> model_id, raised |-> r.raised,
   exc |-> r.exc, response |-> r.response, invoked |-> r.invoked, gw |-> r.gw]

OfConstructor(r) ==
  IF r.ok THEN Returned(r.obj, 0, GwNotCalled) ELSE Raised("ValueError", r.exc, 0, GwNotCalled)

(***************************************************************************)
(* Actions of the service specification.  A run of the program makes one   *)
(* service call (cli.py, orchestrate_joke_generation), so each behaviour   *)
(* is one call on arbitrary inputs.                                        *)
(***************************************************************************)
Idle == call.op = "none"

GenerateJoke ==
  \E choice \in CategoryChoices, model_id \in ModelIdArgs, gw \in GatewayOutcomes :
    /\ Idle
    /\ call' = CallOf("generate_joke", choice[1], model_id,
                      generate_joke(choice[1], model_id, choice[2], gw, UUID1, Now))
    /\ UNCHANGED <<storage_file, op, saved, history, gateway, run, writers, prompting, service>>

Construct ==
  \E joke_id \in {"", "not-a-uuid", UUID1},
     joke_text \in {<<>>, <<" ">>, <<"H", "a">>},
     category \in {"", "general"},
     success \in BOOLEAN,
     timestamp \in {Now, [kind |-> "str", sec |-> 0, usec |-> 0]},
     error_message \in {NoneMsg, <<>>, <<"Some error">>} :
    /\ Idle
    /\ call' = CallOf("JokeResponse", None, None,
                      OfConstructor(JokeResponse_new(joke_id, joke_text, category,
                                                     success, timestamp, error_message)))
    /\ UNCHANGED <<storage_file, op, saved, history, gateway, run, writers, prompting, service>>

CreateSuccess ==
  \E joke_text \in {<<>>, <<" ">>, <<"H", "a">>}, category \in {"", "general"} :
    /\ Idle
    /\ call' = CallOf("create_success", None, None,
                      OfConstructor(create_success(joke_text, category, UUID1, Now)))
    /\ UNCHANGED <<storage_file, op, saved, history, gateway, run, writers, prompting, service>>

CreateError ==
  \E error_message \in {<<>>, <<"Some error">>}, category \in {"", "unknown"} :
    /\ Idle
    /\ call' = CallOf("create_error", None, None,
                      OfConstructor(create_error(error_message, category, UUID1, Now)))
    /\ UNCHANGED <<storage_file, op, saved, history, gateway, run, writers, prompting, service>>

(***************************************************************************)
(* models.py: FeedbackEntry                                                *)
(***************************************************************************)
NoEntry ==
  [joke_id |-> "", joke_text |-> <<>>, category |-> "", rating |-> 0,
   timestamp |-> [kind |-> "none", sec |-> 0, usec |-> 0], user_comment |-> None]

\* a variant without the test of the rating's range
FeedbackEntry_validate_any_rating(self) ==
  IF self.joke_id = "" THEN <<"joke_id must be a non-empty string">>
  ELSE IF ~IsUUID(self.joke_id) THEN <<"joke_id must be a valid UUID string">>
  ELSE IF self.category = "" THEN <<"category must be a non-empty string">>
  ELSE IF ~IsDatetime(self.timestamp) THEN <<"timestamp must be a datetime object">>
  ELSE NoneMsg

\* FeedbackEntry.validate: the message of the ValueError it raises, or NoneMsg
FeedbackEntry_validate(self) ==
  IF self.joke_id = "" THEN <<"joke_id must be a non-empty string">>
  ELSE IF ~IsUUID(self.joke_id) THEN <<"joke_id must be a valid UUID string">>
  ELSE IF self.category = "" THEN <<"category must be a non-empty string">>
  ELSE IF ~(1 <= self.rating /\ self.rating <= 5)
       THEN <<"rating must be between 1 and 5 (inclusive)">>
  ELSE IF ~IsDatetime(self.timestamp) THEN <<"timestamp must be a datetime object">>
  ELSE NoneMsg

FeedbackEntry_new(joke_id, joke_text, category, rating, timestamp, user_comment) ==
  LET self == [joke_id |-> joke_id, joke_text |-> joke_text, category |-> category,
               rating |-> rating, timestamp |-> timestamp, user_comment |-> user_comment]
      err  == FeedbackEntry_validate(self)
  IN  [ok |-> err = NoneMsg, exc |-> err, obj |-> IF err = NoneMsg THEN self ELSE NoEntry]

\* FeedbackEntry.create: the timestamp is datetime.now()
FeedbackEntry_create(joke_id, joke_text, category, rating, user_comment, now) ==
  FeedbackEntry_new(joke_id, joke_text, category, rating, now, user_comment)

(***************************************************************************)
(* feedback_storage.py                                                     *)
(*                                                                         *)
(* The storage file holds a JSON value or text that is not JSON.  An ISO   *)
(* timestamp string is the sequence of its numeric parts: the seconds,     *)
(* and the microseconds when they are not zero (datetime.isoformat leaves  *)
(* the fraction out then).  Ratings' averages are kept in hundredths.      *)
(***************************************************************************)
\* a variant that writes whole seconds only
isoformat_seconds(t) == <<t.sec>>

isoformat(t) == IF t.usec = 0 THEN <<t.sec>> ELSE <<t.sec, t.usec>>

\* datetime.fromisoformat raises ValueError for a string that is not a date
\* (the empty string, here)
fromisoformat_ok(s) == Len(s) \in {1, 2}

fromisoformat(s) == Datetime(s[1], IF Len(s) > 1 THEN s[2] ELSE 0)

\* a variant that truncates to two decimals instead of rounding
round2_floor(num, den) == (100 * num) \div den

\* round(num / den, 2) in hundredths: the nearest hundredth, an exactly
\* representable tie going to the even neighbour (as Python does for the
\* quotients of fewer than 40 ratings)
round2(num, den) ==
  LET q == (100 * num) \div den
      r == (100 * num) % den
  IN  IF 2 * r < den THEN q
      ELSE IF 2 * r > den THEN q + 1
      ELSE IF q % 2 = 0 THEN q ELSE q + 1

EmptyCategoryStats == [c \in {} |-> [count |-> 0, avg_rating |-> 0]]

EmptyStats ==
  [total_jokes |-> 0, average_rating |-> 0, category_stats |-> EmptyCategoryStats]

EmptyData == [feedback_entries |-> <<>>, stats |-> EmptyStats]

\* the JSON object {}: a dictionary without keys
EmptyObject == [k \in {} |-> None]

MissingFile == [kind |-> "missing", feedback_entries |-> <<>>, stats |-> EmptyStats]
NotJson     == [kind |-> "not json", feedback_entries |-> <<>>, stats |-> EmptyStats]
JsonFile(data) ==
  [kind |-> "json", feedback_entries |-> data.feedback_entries, stats |-> data.stats]
\* a file holding valid JSON that has neither field, such as {}
JsonWithoutFields ==
  [kind |-> "json without fields", feedback_entries |-> <<>>, stats |-> EmptyStats]

\* a file that cannot be opened for reading (IOError), whatever it holds
Unreadable(data) ==
  [kind |-> "unreadable", feedback_entries |-> data.feedback_entries, stats |-> data.stats]

\* FeedbackStorage._load_feedback_data: a dictionary, whose keys are the
\* DOMAIN of the record; json.load returns whatever valid JSON the file holds
load_feedback_data(file) ==
  IF file.kind = "missing" THEN EmptyData
  ELSE IF file.kind \in {"not json", "unreadable"} THEN EmptyData
  ELSE IF file.kind = "json without fields" THEN EmptyObject
  ELSE [feedback_entries |-> file.feedback_entries, stats |-> file.stats]

\* FeedbackStorage._save_feedback_data: open(..., 'w') truncates the file
\* before json.dump writes; io is what the file system does to this write
save_feedback_data(file, data, io) ==
  IF io = "open fails" THEN [raised |-> "RuntimeError", file |-> file]
  ELSE IF io = "write fails" THEN [raised |-> "RuntimeError", file |-> NotJson]
  ELSE [raised |-> "none", file |-> JsonFile(data)]

feedback_entry_to_dict(entry) ==
  [joke_id |-> entry.joke_id, joke_text |-> entry.joke_text, category |-> entry.category,
   rating |-> entry.rating, timestamp |-> isoformat(entry.timestamp),
   user_comment |-> entry.user_comment]

\* FeedbackStorage._dict_to_feedback_entry: entry_dict['timestamp'] raises
\* KeyError, fromisoformat ValueError, FeedbackEntry(**entry_dict) TypeError
\* for a missing required argument (user_comment has a default) and
\* ValueError from validate
dict_to_feedback_entry(entry_dict) ==
  IF "timestamp" \notin DOMAIN entry_dict
  THEN [ok |-> FALSE, exc |-> <<"KeyError: 'timestamp'">>, obj |-> NoEntry]
  ELSE IF ~fromisoformat_ok(entry_dict.timestamp)
  THEN [ok |-> FALSE, exc |-> <<"ValueError: Invalid isoformat string">>, obj |-> NoEntry]
  ELSE IF ~({"joke_id", "joke_text", "category", "rating"} \subseteq DOMAIN entry_dict)
  THEN [ok |-> FALSE, exc |-> <<"TypeError: missing required positional argument">>,
        obj |-> NoEntry]
  ELSE FeedbackEntry_new(entry_dict.joke_id, entry_dict.joke_text, entry_dict.category,
                         entry_dict.rating, fromisoformat(entry_dict.timestamp),
                         IF "user_comment" \in DOMAIN entry_dict
                         THEN entry_dict.user_comment ELSE None)

RECURSIVE sum_ratings(_)
sum_ratings(entries) ==
  IF entries = <<>> THEN 0 ELSE Head(entries).rating + sum_ratings(Tail(entries))

\* entry["rating"] and entry["category"] raise KeyError for a stored record
\* that lacks the key
update_statistics_raises(entries) ==
  \E i \in 1..Len(entries) : ~({"rating", "category"} \subseteq DOMAIN entries[i])

\* FeedbackStorage._update_statistics: the new data["stats"]
update_statistics(entries) ==
  IF entries = <<>> THEN EmptyStats
  ELSE LET cats == {entries[i].category : i \in 1..Len(entries)}
           of(c) == SelectSeq(entries, LAMBDA e : e.category = c)
       IN  [total_jokes    |-> Len(entries),
            average_rating |-> round2(sum_ratings(entries), Len(entries)),
            category_stats |-> [c \in cats |->
                                  [count      |-> Len(of(c)),
                                   avg_rating |-> round2(sum_ratings(of(c)), Len(of(c)))]]]

\* FeedbackStorage.save_feedback: data["feedback_entries"] and the keys
\* _update_statistics reads raise KeyError before anything is written
save_feedback(file, feedback, io) ==
  LET data == load_feedback_data(file)
  IN  IF "feedback_entries" \notin DOMAIN data
      THEN [raised |-> "KeyError", file |-> file]
      ELSE LET entries == Append(data.feedback_entries, feedback_entry_to_dict(feedback))
           IN  IF update_statistics_raises(entries)
               THEN [raised |-> "KeyError", file |-> file]
               ELSE save_feedback_data(file, [feedback_entries |-> entries,
                                              stats |-> update_statistics(entries)], io)

\* FeedbackStorage.get_feedback_stats: data["stats"]
get_feedback_stats(file) ==
  LET data == load_feedback_data(file)
  IN  IF "stats" \in DOMAIN data
      THEN [raised |-> "none", stats |-> data.stats]
      ELSE [raised |-> "KeyError", stats |-> EmptyStats]

\* a variant that stops at the first record that fails conversion
get_all_feedback_until_bad(file) ==
  LET data == load_feedback_data(file)
  IN  IF "feedback_entries" \notin DOMAIN data
      THEN [raised |-> "KeyError", entries |-> <<>>]
      ELSE LET dicts == data.feedback_entries
               bad   == {i \in 1..Len(dicts) : ~dict_to_feedback_entry(dicts[i]).ok}
               n     == IF bad = {} THEN Len(dicts) ELSE Min(bad) - 1
           IN  [raised  |-> "none",
                entries |-> [i \in 1..n |-> dict_to_feedback_entry(dicts[i]).obj]]

\* FeedbackStorage.get_all_feedback: data["feedback_entries"], then the
\* records converted in order, one that fails conversion being skipped
get_all_feedback(file) ==
  LET data == load_feedback_data(file)
  IN  IF "feedback_entries" \notin DOMAIN data
      THEN [raised |-> "KeyError", entries |-> <<>>]
      ELSE LET dicts == data.feedback_entries
               good  == SelectSeq(dicts, LAMBDA d : dict_to_feedback_entry(d).ok)
           IN  [raised  |-> "none",
                entries |-> [i \in 1..Len(good) |-> dict_to_feedback_entry(good[i]).obj]]

\* FeedbackStorage.clear_all_feedback
clear_all_feedback(file, io) == save_feedback_data(file, EmptyData, io)

(***************************************************************************)
(* JokeService.collect_user_feedback                                       *)
(***************************************************************************)
\* a variant without the test of joke_response.success
collect_user_feedback_unchecked(file, joke_response, rating, user_comment, now, io) ==
  LET feedback == FeedbackEntry_create(joke_response.joke_id, joke_response.joke_text,
                                       joke_response.category, rating, user_comment, now)
  IN  IF ~feedback.ok
      THEN [ret |-> FALSE, raised |-> "none", save_called |-> FALSE,
            save_raised |-> "none", file |-> file]
      ELSE LET s == save_feedback(file, feedback.obj, io)
           IN  [ret |-> s.raised = "none", raised |-> "none",
                save_called |-> TRUE, save_raised |-> s.raised, file |-> s.file]

\* a variant that reports success once save_feedback was called
collect_user_feedback_optimistic(file, joke_response, rating, user_comment, now, io) ==
  IF ~joke_response.success
  THEN [ret |-> FALSE, raised |-> "none", save_called |-> FALSE,
        save_raised |-> "none", file |-> file]
  ELSE LET feedback == FeedbackEntry_create(joke_response.joke_id, joke_response.joke_text,
                                            joke_response.category, rating, user_comment, now)
       IN  IF ~feedback.ok
           THEN [ret |-> FALSE, raised |-> "none", save_called |-> FALSE,
                 save_raised |-> "none", file |-> file]
           ELSE LET s == save_feedback(file, feedback.obj, io)
                IN  [ret |-> TRUE, raised |-> "none",
                     save_called |-> TRUE, save_raised |-> s.raised, file |-> s.file]

collect_user_feedback(file, joke_response, rating, user_comment, now, io) ==
  IF ~joke_response.success
  THEN [ret |-> FALSE, raised |-> "none", save_called |-> FALSE,
             save_raised |-> "none", file |-> file]
  ELSE LET feedback == FeedbackEntry_create(joke_response.joke_id, joke_response.joke_text,
                                            joke_response.category, rating, user_comment, now)
       IN  IF ~feedback.ok
           THEN [ret |-> FALSE, raised |-> "none", save_called |-> FALSE,
             save_raised |-> "none", file |-> file]
           ELSE LET s == save_feedback(file, feedback.obj, io)
                IN  [ret |-> s.raised = "none", raised |-> "none",
                     save_called |-> TRUE, save_raised |-> s.raised, file |-> s.file]

(***************************************************************************)
(* Inputs of the store specification                                       *)
(***************************************************************************)
RespGeneral == create_success(<<"H", "a">>, "general", UUID1, Now).obj
RespPuns    == create_success(<<"H", "o">>, "puns", UUID2, Now).obj
RespError   == create_error(<<"Some error">>, "unknown", UUID1, Now).obj

RatingArgs == {0, 1, 5, 6}

\* the rated response with the comment the user typed, or none
CollectArgs == {<<RespGeneral, None>>, <<RespPuns, "funny">>, <<RespError, None>>}

\* datetime.now() at the moment of the rating: a whole second or not
NowFor(user_comment) == IF user_comment = None THEN Datetime(1, 0) ELSE Datetime(2, 250)

\* the FeedbackEntry objects handed to save_feedback directly
FeedbackEntries ==
  {FeedbackEntry_create(a[1].joke_id, a[1].joke_text, a[1].category, rating,
                        a[2], NowFor(a[2])).obj :
     a \in {b \in CollectArgs : b[1].success}, rating \in {1, 5}}

IoOutcomes == {"ok", "open fails", "write fails"}

\* records a storage file written by something else may hold: the
\* dictionaries of two entries, and damaged copies of the first
GoodRecord1 ==
  feedback_entry_to_dict(FeedbackEntry_new(UUID1, <<"H", "a">>, "general", 5,
                                           Datetime(1, 0), None).obj)
GoodRecord2 ==
  feedback_entry_to_dict(FeedbackEntry_new(UUID2, <<"H", "o">>, "puns", 1,
                                           Datetime(2, 250), "funny").obj)

without(record, key) == [k \in DOMAIN record \ {key} |-> record[k]]

StoredRecords ==
  { GoodRecord1, GoodRecord2,
    without(GoodRecord1, "rating"),
    without(GoodRecord1, "timestamp"),
    [GoodRecord1 EXCEPT !.timestamp = <<>>],
    [GoodRecord1 EXCEPT !.joke_id = "not-a-uuid"],
    [GoodRecord1 EXCEPT !.rating = 6] }

StoredLists == UNION {[1..n -> StoredRecords] : n \in 0..MaxEntries}

\* the storage files the program may find when it starts
LoadFiles ==
       {MissingFile, NotJson, JsonWithoutFields}
  \cup {JsonFile([feedback_entries |-> rs, stats |-> EmptyStats]) : rs \in StoredLists}

NoOp ==
  [name |-> "none", raised |-> "none", ret |-> FALSE, save_called |-> FALSE,
   save_raised |-> "none", response |-> NoResponse, rating |-> 0, feedback |-> NoEntry,
   entries |-> <<>>, stats |-> EmptyStats]

\* what the run so far consists of: "saves" (successful save_feedback calls
\* only), "ok" (successful saves and clears), "failed" (some write failed)
HistoryAfter(name, raised) ==
  IF raised # "none" \/ history = "failed" THEN "failed"
  ELSE IF name = "clear_all_feedback" THEN "ok"
  ELSE history

(***************************************************************************)
(* Actions of the store specification                                      *)
(***************************************************************************)
SaveFeedback ==
  \E feedback \in FeedbackEntries, io \in IoOutcomes :
    LET r == save_feedback(storage_file, feedback, io)
    IN  /\ Len(storage_file.feedback_entries) < MaxEntries
        /\ storage_file' = r.file
        /\ op' = [NoOp EXCEPT !.name = "save_feedback", !.raised = r.raised,
                              !.save_called = TRUE, !.save_raised = r.raised, !.feedback = feedback]
        /\ history' = HistoryAfter("save_feedback", r.raised)
        /\ saved' = IF history' = "saves" THEN Append(saved, feedback) ELSE <<>>
        /\ UNCHANGED <<call, gateway, run, writers, prompting, service>>

ClearAllFeedback ==
  \E io \in IoOutcomes :
    LET r == clear_all_feedback(storage_file, io)
    IN  /\ storage_file' = r.file
        /\ op' = [NoOp EXCEPT !.name = "clear_all_feedback", !.raised = r.raised]
        /\ history' = HistoryAfter("clear_all_feedback", r.raised)
        /\ saved' = <<>>
        /\ UNCHANGED <<call, gateway, run, writers, prompting, service>>

GetAllFeedback ==
  LET r == get_all_feedback(storage_file)
  IN  /\ op' = [NoOp EXCEPT !.name = "get_all_feedback", !.raised = r.raised,
                            !.entries = r.entries]
      /\ UNCHANGED <<call, storage_file, saved, history, gateway, run, writers, prompting, service>>

GetFeedbackStats ==
  LET r == get_feedback_stats(storage_file)
  IN  /\ op' = [NoOp EXCEPT !.name = "get_feedback_stats", !.raised = r.raised,
                            !.stats = r.stats]
      /\ UNCHANGED <<call, storage_file, saved, history, gateway, run, writers, prompting, service>>

CollectUserFeedback ==
  \E arg \in CollectArgs, rating \in RatingArgs, io \in IoOutcomes :
    LET joke_response == arg[1]
        user_comment  == arg[2]
        now == NowFor(user_comment)
        r   == collect_user_feedback(storage_file, joke_response, rating,
                                     user_comment, now, io)
        fb  == FeedbackEntry_create(joke_response.joke_id, joke_response.joke_text,
                                    joke_response.category, rating, user_comment, now)
    IN  /\ Len(storage_file.feedback_entries) < MaxEntries
        /\ storage_file' = r.file
        /\ op' = [NoOp EXCEPT !.name = "collect_user_feedback", !.raised = r.raised,
                              !.ret = r.ret, !.save_called = r.save_called,
                              !.save_raised = r.save_raised,
                              !.response = joke_response, !.rating = rating,
                              !.feedback = IF r.save_called THEN fb.obj ELSE NoEntry]
        /\ history' = IF r.save_called
                      THEN HistoryAfter("save_feedback", r.save_raised)
                      ELSE history
        /\ saved' = IF history' # "saves" THEN <<>>
                    ELSE IF r.save_called THEN Append(saved, fb.obj) ELSE saved
        /\ UNCHANGED <<call, gateway, run, writers, prompting, service>>

(***************************************************************************)
(* bedrock_client.py                                                       *)
(*                                                                         *)
(* A dictionary is a record whose DOMAIN is its keys.  The provider is     *)
(* what answers the requests of the boto3 client: a number of transient    *)
(* failures in a row, then a final outcome.                                *)
(***************************************************************************)
MAX_RETRIES == 3

DEFAULT_MODEL_ID == <<"u", "s", ".", "a", "n", "t", "h", "r", "o", "p", "i", "c", ".", "c", "l", "a", "u", "d", "e", "-", "s", "o", "n", "n", "e", "t", "-", "4", "-", "2", "0", "2", "5", "0", "5", "1", "4", "-", "v", "1", ":", "0">>

\* sub in s
contains(s, sub) ==
  \E i \in 1..(Len(s) - Len(sub) + 1) : SubSeq(s, i, i + Len(sub) - 1) = sub

\* d.get(key, default)
get(d, key, default) == IF key \in DOMAIN d THEN d[key] ELSE default

marker_claude   == <<"c", "l", "a", "u", "d", "e">>
marker_claude_3 == <<"c", "l", "a", "u", "d", "e", "-", "3">>
marker_sonnet_4 == <<"c", "l", "a", "u", "d", "e", "-", "s", "o", "n", "n", "e", "t", "-", "4">>
marker_titan    == <<"t", "i", "t", "a", "n">>

\* the test of invoke_model (and of _test_credentials) for the Converse API
uses_converse_api(model_id) ==
  /\ contains(lower(model_id), marker_claude)
  /\ \/ contains(lower(model_id), marker_claude_3)
     \/ contains(lower(model_id), marker_sonnet_4)

\* a variant that tests for claude before titan
legacy_request_format_claude_first(model_id) ==
  IF contains(lower(model_id), marker_claude) THEN "claude"
  ELSE IF contains(lower(model_id), marker_titan) THEN "titan"
  ELSE "generic"

\* _invoke_with_legacy_api: the request body built for the model
legacy_request_format(model_id) ==
  IF contains(lower(model_id), marker_titan) THEN "titan"
  ELSE IF contains(lower(model_id), marker_claude) THEN "claude"
  ELSE "generic"

\* _invoke_with_legacy_api: the branch that extracts the text of the response
legacy_response_format(model_id) ==
  IF contains(lower(model_id), marker_titan) THEN "titan"
  ELSE IF contains(lower(model_id), marker_claude) THEN "claude"
  ELSE "generic"

RECURSIVE keys_text(_)
keys_text(keys) ==
  IF keys = {} THEN <<>>
  ELSE LET k == CHOOSE x \in keys : TRUE IN <<"'", k, "'", ":", "...">> \o keys_text(keys \ {k})

\* str(response_body): the repr of the dictionary (its values left out here)
str_dict(body) == <<"{">> \o keys_text(DOMAIN body) \o <<"}">>

\* the outcome of extracting the text: returned text or a raised exception
Extracted(t)  == [raised |-> "none", msg |-> <<>>, text |-> t]
ExtractRaises(kind, m) == [raised |-> kind, msg |-> m, text |-> <<>>]

EmptyResponseError == ExtractRaises("BedrockClientError", <<"Model returned empty response">>)

\* if not generated_text or not generated_text.strip(): raise; return the
\* stripped text
strip_or_raise(generated_text) ==
  IF generated_text = <<>> \/ strip(generated_text) = <<>> THEN EmptyResponseError
  ELSE Extracted(strip(generated_text))

\* _invoke_with_converse_api, after client.converse returned
extract_converse(response) ==
  LET output  == get(response, "output", EmptyObject)
      message == get(output, "message", EmptyObject)
      content == get(message, "content", <<>>)
  IN  IF content # <<>>
      THEN strip_or_raise(get(content[1], "text", <<>>))
      ELSE EmptyResponseError

\* _invoke_with_legacy_api, after client.invoke_model returned
extract_legacy(model_id, response_body) ==
  LET format == legacy_response_format(model_id)
  IN  IF format = "titan"
      THEN LET results == get(response_body, "results", <<EmptyObject>>)
           IN  IF results = <<>>
               THEN ExtractRaises("IndexError", <<"list index out of range">>)
               ELSE strip_or_raise(get(results[1], "outputText", <<>>))
      ELSE IF format = "claude"
      THEN strip_or_raise(get(response_body, "completion", <<>>))
      ELSE LET a == get(response_body, "generated_text", <<>>)
               b == get(response_body, "text", <<>>)
               c == get(response_body, "output", <<>>)
           IN  strip_or_raise(IF a # <<>> THEN a
                              ELSE IF b # <<>> THEN b
                              ELSE IF c # <<>> THEN c
                              ELSE str_dict(response_body))

\* what the provider does with the requests of one client call
ProviderAnswer(transient, final) == [transient |-> transient, final |-> final]
FinalResponse(body)   == [kind |-> "response", code |-> "", body |-> body]
FinalClientError(code) == [kind |-> "ClientError", code |-> code, body |-> EmptyObject]
FinalError(kind)      == [kind |-> kind, code |-> "", body |-> EmptyObject]

\* the boto3 client made with Config(retries = {max_attempts: MAX_RETRIES,
\* mode: adaptive}): a throttled or unavailable request is sent again until
\* the attempts are used up
client_call(answer) ==
  IF answer.transient >= MAX_RETRIES
  THEN [attempts |-> MAX_RETRIES, outcome |-> FinalClientError("ThrottlingException")]
  ELSE [attempts |-> answer.transient + 1, outcome |-> answer.final]

\* _handle_client_error: the message of the BedrockClientError it raises
handle_client_error(code, model_id_name) ==
  IF code = "AccessDeniedException"
  THEN Fmt(<<"Access denied to Bedrock model '", model_id_name, "'.">>)
  ELSE IF code = "ThrottlingException" THEN <<"Rate limit exceeded for AWS Bedrock API.">>
  ELSE IF code = "ServiceUnavailableException"
  THEN <<"AWS Bedrock service is currently unavailable.">>
  ELSE IF code = "ValidationException" THEN <<"Invalid request: ", "message">>
  ELSE <<"AWS API error (", code, "): ", "message">>

\* a BedrockClient instance: its profile and its cached boto3 client
NewBedrockClient(profile) == [profile |-> profile, client |-> None]

\* _test_credentials: the probe is a converse call for DEFAULT_MODEL_ID.  The
\* inner handler re-raises a ClientError with one of the two access codes
\* and swallows every other ClientError; the outer handler turns what
\* reaches it into a BedrockClientError by its code, or re-raises it
test_credentials(self, probe) ==
  LET reraised == probe.kind = "ClientError"
                    /\ probe.code \in {"AccessDeniedException", "UnauthorizedOperation"}
  IN  IF probe.kind = "response" THEN [raised |-> "none", code |-> "", msg |-> <<>>]
      ELSE IF probe.kind # "ClientError"
      THEN [raised |-> probe.kind, code |-> "", msg |-> <<"Unable to locate credentials">>]
      ELSE IF ~reraised THEN [raised |-> "none", code |-> "", msg |-> <<>>]
      ELSE IF probe.code \in {"AccessDeniedException", "UnauthorizedOperation"}
      THEN [raised |-> "BedrockClientError", code |-> "",
            msg |-> Fmt(<<"Access denied to Bedrock model '", "bedrock-runtime", "'.">>)]
      ELSE IF probe.code = "InvalidUserID.NotFound"
      THEN [raised |-> "BedrockClientError", code |-> "",
            msg |-> Fmt(<<"AWS profile '",
                          IF self.profile = None THEN "default" ELSE self.profile,
                          "' not found.">>)]
      ELSE [raised |-> "ClientError", code |-> probe.code, msg |-> <<"message">>]

\* a variant of _get_client that stores the client only after the probe
\* passed, so that a failed probe is repeated by the next call
get_client_store_after_probe(self, profile_exists, probe) ==
  IF self.client # None
  THEN [self |-> self, raised |-> FALSE, msg |-> <<>>, probes |-> 0]
  ELSE IF self.profile # None /\ ~profile_exists
  THEN [self |-> self, raised |-> TRUE, probes |-> 0,
        msg |-> <<"Failed to initialize Bedrock client: ">>]
  ELSE LET made == [self EXCEPT !.client = "bedrock-runtime"]
           t    == test_credentials(made, probe)
       IN  IF t.raised = "none"
           THEN [self |-> made, raised |-> FALSE, msg |-> <<>>, probes |-> 1]
           ELSE [self |-> self, raised |-> TRUE, probes |-> 1,
                 msg |-> <<"Failed to initialize Bedrock client: ">> \o t.msg]

\* _get_client: the instance afterwards, the BedrockClientError raised if
\* any, and the number of probes sent.  The client is stored before the
\* probe, so it stays cached when the probe fails.
get_client(self, profile_exists, probe) ==
  IF self.client # None
  THEN [self |-> self, raised |-> FALSE, msg |-> <<>>, probes |-> 0]
  ELSE IF self.profile # None /\ ~profile_exists
  THEN \* boto3.Session(profile_name=...) raises ProfileNotFound, which the
       \* except Exception clause handles
       [self |-> self, raised |-> TRUE, probes |-> 0,
        msg |-> Fmt(<<"Failed to initialize Bedrock client: ",
                      "The config profile (", self.profile, ") could not be found">>)]
  ELSE LET made == [self EXCEPT !.client = "bedrock-runtime"]
           t    == test_credentials(made, probe)
       IN  IF t.raised = "none"
           THEN [self |-> made, raised |-> FALSE, msg |-> <<>>, probes |-> 1]
           ELSE IF t.raised = "NoCredentialsError"
           THEN [self |-> made, raised |-> TRUE, probes |-> 1,
                 msg |-> <<"AWS credentials not found.">>]
           ELSE IF t.raised = "ClientError"
           THEN [self |-> made, raised |-> TRUE, probes |-> 1,
                 msg |-> IF t.code = "UnauthorizedOperation"
                         THEN Fmt(<<"Access denied to Bedrock model '",
                                    "bedrock-runtime", "'.">>)
                         ELSE <<"AWS client error (", t.code, "): ">> \o t.msg]
           ELSE [self |-> made, raised |-> TRUE, probes |-> 1,
                 msg |-> <<"Failed to initialize Bedrock client: ">> \o t.msg]

NoInvocation ==
  [op |-> "none", model_id |-> <<>>, raised |-> FALSE, msg |-> <<>>, text |-> <<>>,
   probes |-> 0, attempts |-> 0, request |-> "none", parsed |-> "none",
   returned |-> "none", profile_exists |-> TRUE, probe |-> FinalResponse(EmptyObject),
   answer |-> ProviderAnswer(0, FinalResponse(EmptyObject))]

\* BedrockClient.invoke_model(prompt, config) with config.model_id = model_id
invoke_model(self, model_id, profile_exists, probe, answer) ==
  LET g    == get_client(self, profile_exists, probe)
      base == [NoInvocation EXCEPT !.op = "invoke_model", !.model_id = model_id,
                                   !.probes = g.probes, !.profile_exists = profile_exists,
                                   !.probe = probe, !.answer = answer]
      fail(m, r) == [r EXCEPT !.raised = TRUE, !.msg = m]
  IN  IF g.raised
      THEN \* except Exception as e: BedrockClientError(f"Unexpected error: {e}")
           [self |-> g.self, result |-> fail(<<"Unexpected error: ">> \o g.msg, base)]
      ELSE LET converse == uses_converse_api(model_id)
               c        == client_call(answer)
               sent     == [base EXCEPT !.attempts = c.attempts,
                              !.request = IF converse THEN "converse"
                                          ELSE legacy_request_format(model_id)]
           IN  IF c.outcome.kind = "ClientError"
               THEN [self |-> g.self,
                     result |-> fail(handle_client_error(c.outcome.code, "model_id"), sent)]
               ELSE IF c.outcome.kind = "ReadTimeoutError"
               THEN [self |-> g.self,
                     result |-> fail(<<"Request timed out after ", "10", " seconds.">>, sent)]
               ELSE LET e == IF converse THEN extract_converse(c.outcome.body)
                             ELSE extract_legacy(model_id, c.outcome.body)
                        got == [sent EXCEPT !.parsed = IF converse THEN "converse"
                                                       ELSE legacy_response_format(model_id)]
                    IN  IF e.raised = "none"
                        THEN [self |-> g.self, result |-> [got EXCEPT !.text = e.text]]
                        ELSE [self |-> g.self,
                              result |-> fail(<<"Unexpected error: ">> \o e.msg, got)]

\* BedrockClient.test_connection(): True when _get_client returns, False
\* when it raises an Exception; nothing is raised to the caller
test_connection(self, profile_exists, probe) ==
  LET g == get_client(self, profile_exists, probe)
  IN  [self |-> g.self,
       result |-> [NoInvocation EXCEPT !.op = "test_connection", !.probes = g.probes,
                                       !.profile_exists = profile_exists,
                                       !.probe = probe,
                                       !.returned = IF g.raised THEN "False" ELSE "True"]]

(***************************************************************************)
(* Inputs of the gateway specification                                     *)
(***************************************************************************)
ModelIds ==
  { DEFAULT_MODEL_ID,
    <<"a", "n", "t", "h", "r", "o", "p", "i", "c", ".", "C", "l", "a", "u", "d", "e", "-", "3", "-", "h", "a", "i", "k", "u">>,
    <<"A", "N", "T", "H", "R", "O", "P", "I", "C", ".", "C", "L", "A", "U", "D", "E", "-", "V", "2">>,
    <<"a", "m", "a", "z", "o", "n", ".", "t", "i", "t", "a", "n", "-", "t", "e", "x", "t">>,
    <<"t", "i", "t", "a", "n", "-", "c", "l", "a", "u", "d", "e">>,
    <<"m", "e", "t", "a", ".", "l", "l", "a", "m", "a", "2">> }

Profiles == {None, "work"}

GeneratedTexts == {<<>>, <<" ">>, <<" ", "H", "a", " ">>}

ConverseResponses ==
       {EmptyObject}
  \cup {[output |-> [message |-> [content |-> content]]] :
          content \in {<<>>, <<EmptyObject>>} \cup {<<[text |-> t]>> : t \in GeneratedTexts}}

LegacyResponses ==
       {EmptyObject, [results |-> <<>>], [results |-> <<EmptyObject>>]}
  \cup {[results |-> <<[outputText |-> t]>>] : t \in GeneratedTexts}
  \cup {[completion |-> t] : t \in GeneratedTexts}
  \cup {[generated_text |-> t] : t \in GeneratedTexts}
  \cup {[generated_text |-> <<>>, output |-> t] : t \in GeneratedTexts}

OtherOutcomes ==
  {FinalClientError("AccessDeniedException"), FinalClientError("ValidationException"),
   FinalError("ReadTimeoutError")}

ConverseOutcomes == {FinalResponse(b) : b \in ConverseResponses} \cup OtherOutcomes
LegacyOutcomes   == {FinalResponse(b) : b \in LegacyResponses} \cup OtherOutcomes

ProbeOutcomes ==
  { FinalResponse(EmptyObject),
    FinalClientError("AccessDeniedException"),
    FinalClientError("InvalidUserID.NotFound"),
    FinalError("NoCredentialsError") }

(***************************************************************************)
(* cli.py: main and the functions it calls.  What the program prints is    *)
(* kept as the set of the kinds of output shown.                           *)
(***************************************************************************)
EXIT_SUCCESS == 0
EXIT_GENERAL_ERROR == 1
EXIT_INVALID_ARGUMENTS == 2
EXIT_AWS_CREDENTIALS_ERROR == 3
EXIT_USER_CANCELLED == 130

\* how a function of cli.py ends: it returns (code is the value returned
\* where there is one) or raises (code is the code of a SystemExit)
CliReturns(code, out) == [raised |-> "none", code |-> code, out |-> out]
CliRaises(kind, out)  == [raised |-> kind, code |-> EXIT_SUCCESS, out |-> out]
SysExit(code, out)    == [raised |-> "SystemExit", code |-> code, out |-> out]

\* parse_arguments: argparse exits with 2 on a usage error and with 0 after
\* --version; event is what is raised while it runs
parse_arguments(argv, event) ==
  IF event # "none" THEN CliRaises(event, {})
  ELSE IF argv.usage = "error" THEN SysExit(EXIT_INVALID_ARGUMENTS, {"usage"})
  ELSE IF argv.usage = "version" THEN SysExit(EXIT_SUCCESS, {"version"})
  ELSE CliReturns(EXIT_SUCCESS, {})

\* validate_arguments: event is what is raised while the profile's session
\* is created, profile_exists whether boto3 finds the profile
validate_arguments(args, profile_exists, event) ==
  IF args.stats /\ args.category # None
  THEN SysExit(EXIT_INVALID_ARGUMENTS, {"error"})
  ELSE IF args.stats /\ args.no_feedback
  THEN SysExit(EXIT_INVALID_ARGUMENTS, {"error"})
  ELSE IF args.profile # None
  THEN LET kind == IF event # "none" THEN event
                   ELSE IF ~profile_exists THEN "ProfileNotFound" ELSE "none"
       IN  IF kind = "none" THEN CliReturns(EXIT_SUCCESS, {})
           ELSE IF except_Exception(kind)
           THEN \* display_error_message("invalid_profile", exit_on_error=True)
                SysExit(EXIT_AWS_CREDENTIALS_ERROR, {"error"})
           ELSE CliRaises(kind, {})
  ELSE CliReturns(EXIT_SUCCESS, {})

\* JokeService.get_feedback_statistics: any exception of the store gives the
\* zero statistics
get_feedback_statistics(file) ==
  LET r == get_feedback_stats(file)
  IN  IF r.raised = "none" THEN r.stats ELSE EmptyStats

\* JokeService.format_statistics_output: the report without data, or the
\* report of the statistics
format_statistics_output(file) ==
  IF get_feedback_statistics(file).total_jokes = 0
  THEN "no feedback data" ELSE "statistics"

\* display_statistics: mkdir_ok is whether FeedbackStorage can create its
\* directory when JokeService() is constructed; an exception is handled by
\* handle_error(e, "feedback_storage_error", exit_on_error=True)
display_statistics(file, mkdir_ok) ==
  IF ~mkdir_ok THEN SysExit(EXIT_GENERAL_ERROR, {"error"})
  ELSE CliReturns(EXIT_SUCCESS, {format_statistics_output(file)})

\* orchestrate_joke_generation up to the display of the joke
orchestrate_generation(args, mkdir_ok, rnd, gw, id, now) ==
  LET \* except Exception: handle_error(e, "general_error", exit_on_error=False)
      handled == [end |-> CliReturns(EXIT_SUCCESS, {"error"}), response |-> NoResponse,
                  shown |-> FALSE]
      g == generate_joke(args.category, None, rnd, gw, id, now)
  IN  IF ~mkdir_ok THEN handled
      ELSE IF g.raised # "none"
      THEN IF except_Exception(g.raised) THEN handled
           ELSE [end |-> CliRaises(g.raised, {}), response |-> NoResponse, shown |-> FALSE]
      ELSE IF ~g.response.success
      THEN [end |-> CliReturns(EXIT_SUCCESS, {"error"}), response |-> g.response,
            shown |-> FALSE]
      ELSE [end |-> CliReturns(EXIT_SUCCESS, {"joke"}), response |-> g.response,
            shown |-> TRUE]

\* JokeService.prompt_for_feedback: answer is what input() gives or raises;
\* rated is whether the rating returned is not None
prompt_for_feedback(answer) ==
  IF answer.kind = "rating"
  THEN [rated |-> TRUE, rating |-> answer.rating, comment |-> answer.comment, out |-> {}]
  ELSE IF answer.kind = "skip"
  THEN [rated |-> FALSE, rating |-> 0, comment |-> None, out |-> {}]
  ELSE IF answer.kind \in {"EOFError", "KeyboardInterrupt"}
  THEN [rated |-> FALSE, rating |-> 0, comment |-> None, out |-> {"feedback skipped"}]
  ELSE [rated |-> FALSE, rating |-> 0, comment |-> None, out |-> {"warning"}]

\* a variant of the handlers that handles errors only
feedback_except_errors_only(kind) ==
  IF except_Exception(kind) THEN "warning" ELSE "raise"

\* the handlers of the feedback block of orchestrate_joke_generation
feedback_except(kind) ==
  IF kind = "KeyboardInterrupt" THEN "feedback skipped"
  ELSE IF except_Exception(kind) THEN "warning"
  ELSE "raise"

\* the feedback block of orchestrate_joke_generation, and the return after
\* it: event is what is raised while collect_user_feedback saves, before
\* anything is written
feedback_block(file, joke_response, answer, event, io, now) ==
  LET p == prompt_for_feedback(answer)
      c == collect_user_feedback(file, joke_response, p.rating, p.comment, now, io)
  IN  IF ~p.rated
      THEN [end |-> CliReturns(EXIT_SUCCESS, p.out), file |-> file]
      ELSE IF event = "none"
      THEN [end |-> CliReturns(EXIT_SUCCESS, IF c.ret THEN {"thanks"} ELSE {"warning"}),
            file |-> c.file]
      ELSE IF except_Exception(event)
      THEN \* collect_user_feedback catches it and returns False
           [end |-> CliReturns(EXIT_SUCCESS, {"warning"}), file |-> file]
      ELSE IF feedback_except(event) = "raise"
      THEN [end |-> CliRaises(event, {}), file |-> file]
      ELSE [end |-> CliReturns(EXIT_SUCCESS, {feedback_except(event)}), file |-> file]

\* main: its except clauses and the sys.exit(exit_code) after them
main_exit(end) ==
  IF end.raised = "none" THEN [exit_code |-> end.code, out |-> end.out]
  ELSE IF end.raised = "KeyboardInterrupt"
  THEN [exit_code |-> EXIT_USER_CANCELLED, out |-> end.out \cup {"cancelled"}]
  ELSE IF end.raised = "SystemExit" THEN [exit_code |-> end.code, out |-> end.out]
  ELSE [exit_code |-> EXIT_SUCCESS, out |-> end.out \cup {"error"}]

(***************************************************************************)
(* Inputs of the command-line specification                                *)
(***************************************************************************)
Argv(usage, stats, category, no_feedback, profile) ==
  [usage |-> usage, stats |-> stats, category |-> category,
   no_feedback |-> no_feedback, profile |-> profile]

NoArgs == Argv("ok", FALSE, None, FALSE, None)

CommandLines ==
  { NoArgs,
    Argv("ok", FALSE, "puns", TRUE, None),
    Argv("ok", FALSE, None, FALSE, "work"),
    Argv("ok", TRUE, None, FALSE, None),
    Argv("ok", TRUE, "puns", FALSE, None),
    Argv("ok", TRUE, None, TRUE, None),
    Argv("error", FALSE, None, FALSE, None),
    Argv("version", FALSE, None, FALSE, None) }

\* what may be raised while a step runs
Interrupts == {"none", "KeyboardInterrupt"}

CliGatewayOutcomes ==
  { GwText(<<"H", "a">>), GwText(<<" ">>),
    GwRaise("BedrockClientError", <<"Access denied to Bedrock model">>),
    GwRaise("BedrockClientError", <<>>),
    GwRaise("KeyboardInterrupt", <<>>) }

PromptAnswers ==
  { [kind |-> "rating", rating |-> 5, comment |-> None],
    [kind |-> "rating", rating |-> 1, comment |-> "funny"],
    [kind |-> "skip", rating |-> 0, comment |-> None],
    [kind |-> "EOFError", rating |-> 0, comment |-> None],
    [kind |-> "KeyboardInterrupt", rating |-> 0, comment |-> None],
    [kind |-> "RuntimeError", rating |-> 0, comment |-> None] }

StoredData ==
  [feedback_entries |-> <<GoodRecord1>>, stats |-> update_statistics(<<GoodRecord1>>)]

\* the storage files a run may find
CliFiles == {MissingFile, JsonWithoutFields, JsonFile(StoredData), Unreadable(StoredData)}

\* pc: where main is; interrupted: the step an interrupt arrived in;
\* feedback: what happened in the feedback block; read: what reading the
\* store for the statistics display met
NoRun ==
  [pc |-> "none", args |-> NoArgs, interrupted |-> "none", response |-> NoResponse,
   shown |-> FALSE, feedback |-> "none", read |-> "none", out |-> {},
   exit_code |-> EXIT_SUCCESS]

\* one instance with the calls made on it so far: the number of calls, the
\* last one, the probes and generation requests sent over all of them,
\* whether a probe failed, and whether a probe followed a generation request
NoGateway ==
  [self |-> NewBedrockClient(None), calls |-> 0, last |-> NoInvocation,
   probed |-> 0, requests |-> 0, probe_failed |-> FALSE, probe_late |-> FALSE]

\* the instance record after a call that left the instance as self and is
\* described by result; failed tells whether _get_client raised after a probe
AfterCall(self, result, failed) ==
  [self |-> self, calls |-> gateway.calls + 1, last |-> result,
   probed |-> gateway.probed + result.probes,
   requests |-> gateway.requests + (IF result.request # "none" THEN 1 ELSE 0),
   probe_failed |-> gateway.probe_failed \/ (result.probes > 0 /\ failed),
   probe_late |-> gateway.probe_late \/ (result.probes > 0 /\ gateway.requests > 0)]

(***************************************************************************)
(* Action of the gateway specification                                     *)
(***************************************************************************)
\* The environment of a call: whether the profile exists and what the probe
\* is answered matter only while no client is cached, and what the
\* generation request is answered only when the client is obtained; an
\* input that cannot matter takes one value.
InvokeModel ==
  \E model_id \in ModelIds, profile_exists \in BOOLEAN, probe \in ProbeOutcomes,
     transient \in 0..MaxTransient :
    /\ gateway.calls < MaxCalls
    /\ (gateway.self.client # None \/ gateway.self.profile = None) => profile_exists
    /\ gateway.self.client # None => probe = FinalResponse(EmptyObject)
    /\ LET failed == get_client(gateway.self, profile_exists, probe).raised
       IN  /\ failed => transient = 0
           /\ \E final \in IF failed THEN {FinalResponse(EmptyObject)}
                             ELSE IF uses_converse_api(model_id) THEN ConverseOutcomes
                             ELSE LegacyOutcomes :
                 LET r == invoke_model(gateway.self, model_id, profile_exists, probe,
                                       ProviderAnswer(transient, final))
                 IN  gateway' = AfterCall(r.self, r.result, failed)
    /\ UNCHANGED <<call, storage_file, op, saved, history, run, writers, prompting, service>>

TestConnection ==
  \E profile_exists \in BOOLEAN, probe \in ProbeOutcomes :
    /\ gateway.calls < MaxCalls
    /\ (gateway.self.client # None \/ gateway.self.profile = None) => profile_exists
    /\ gateway.self.client # None => probe = FinalResponse(EmptyObject)
    /\ LET r == test_connection(gateway.self, profile_exists, probe)
       IN  gateway' = AfterCall(r.self, r.result, r.result.returned = "False")
    /\ UNCHANGED <<call, storage_file, op, saved, history, run, writers, prompting, service>>

(***************************************************************************)
(* Two processes in save_feedback on one storage file.  There is no lock:  *)
(* the load, the open(..., 'w') that truncates the file, and the write of  *)
(* the document when the file is closed are separate steps of a process.   *)
(***************************************************************************)
Procs == {1, 2}

IdleWriter == [pc |-> "idle", loaded |-> <<>>, data |-> EmptyData]

\* w: where each process is, what it loaded and the document it built;
\* before: the entries persisted before the calls; last: who wrote last
NoWriters ==
  [pc |-> "none", w |-> [p \in Procs |-> IdleWriter], before |-> <<>>, last |-> 0]

\* the file a process has opened for writing and not written yet: empty
Truncated == NotJson

\* what the file holds after a process wrote its document from offset 0.  If
\* another process wrote since this one truncated the file, the part of that
\* document beyond the length of this one stays in the file: a document with
\* more records is the longer one, and of two documents with as many
\* records either may be
written(file, data) ==
  IF file.kind # "json" \/ JsonFile(data) = file THEN {JsonFile(data)}
  ELSE    (IF Len(data.feedback_entries) >= Len(file.feedback_entries)
           THEN {JsonFile(data)} ELSE {})
     \cup (IF Len(data.feedback_entries) <= Len(file.feedback_entries)
           THEN {NotJson} ELSE {})

\* save_feedback up to _save_feedback_data: the document is built from what
\* the file holds now
LoadForSave(p) ==
  \E feedback \in FeedbackEntries :
    LET data    == load_feedback_data(storage_file)
        entries == Append(data.feedback_entries, feedback_entry_to_dict(feedback))
    IN  /\ writers.pc = "run"
        /\ writers.w[p].pc = "idle"
        /\ writers' = [writers EXCEPT !.w[p] =
                         [pc |-> "loaded", loaded |-> data.feedback_entries,
                          data |-> [feedback_entries |-> entries,
                                    stats |-> update_statistics(entries)]]]
        /\ UNCHANGED <<call, storage_file, op, saved, history, gateway, run, prompting,
                       service>>

\* _save_feedback_data: open(self.storage_file, 'w')
OpenForSave(p) ==
  /\ writers.pc = "run"
  /\ writers.w[p].pc = "loaded"
  /\ storage_file' = Truncated
  /\ writers' = [writers EXCEPT !.w[p].pc = "opened"]
  /\ UNCHANGED <<call, op, saved, history, gateway, run, prompting, service>>

\* _save_feedback_data: json.dump and the end of the with block
WriteForSave(p) ==
  /\ writers.pc = "run"
  /\ writers.w[p].pc = "opened"
  /\ storage_file' \in written(storage_file, writers.w[p].data)
  /\ writers' = [writers EXCEPT !.w[p].pc = "done", !.last = p]
  /\ UNCHANGED <<call, op, saved, history, gateway, run, prompting, service>>

(***************************************************************************)
(* JokeService.prompt_for_feedback, one input() at a time                  *)
(***************************************************************************)
FEEDBACK_RATING_MIN == 1
FEEDBACK_RATING_MAX == 5

Digits == <<"0", "1", "2", "3", "4", "5", "6", "7", "8", "9">>

DigitOf == [c \in {Digits[i] : i \in 1..10} |-> (CHOOSE i \in 1..10 : Digits[i] = c) - 1]

RECURSIVE digits_value(_)
digits_value(t) ==
  IF t = <<>> THEN 0 ELSE 10 * digits_value(SubSeq(t, 1, Len(t) - 1)) + DigitOf[t[Len(t)]]

\* int(text): an optional sign and decimal digits, ValueError otherwise
int_of(text) ==
  LET signed == text # <<>> /\ text[1] \in {"+", "-"}
      body   == IF signed THEN Tail(text) ELSE text
  IN  IF body = <<>> \/ \E i \in 1..Len(body) : body[i] \notin DOMAIN DigitOf
      THEN [ok |-> FALSE, value |-> 0]
      ELSE [ok |-> TRUE,
            value |-> IF signed /\ text[1] = "-" THEN 0 - digits_value(body)
                      ELSE digits_value(body)]

\* a variant that accepts every integer
rating_in_range_any(rating) == TRUE

\* FEEDBACK_RATING_MIN <= rating <= FEEDBACK_RATING_MAX
rating_in_range(rating) == FEEDBACK_RATING_MIN <= rating /\ rating <= FEEDBACK_RATING_MAX

\* one pass of the while loop on what input() returned
rating_prompt(typed) ==
  LET rating_input == lower(strip(typed))
      n == int_of(rating_input)
  IN  IF rating_input \in {<<"s">>, <<"s", "k", "i", "p">>} THEN [step |-> "skip", rating |-> 0]
      ELSE IF n.ok /\ rating_in_range(n.value) THEN [step |-> "break", rating |-> n.value]
      ELSE [step |-> "again", rating |-> 0]

\* comment_input.strip(), None when it is empty
comment_prompt(typed) == IF strip(typed) = <<>> THEN NoneMsg ELSE strip(typed)

\* a variant whose try block ends before the comment prompt
in_try_rating_only(where) == where = "rating"

\* the try block covers both prompts
in_try(where) == where \in {"rating", "comment"}

\* the except clauses of prompt_for_feedback
prompt_except(kind) ==
  IF kind \in {"EOFError", "KeyboardInterrupt"} THEN "feedback skipped"
  ELSE IF except_Exception(kind) THEN "warning"
  ELSE "raise"

\* pc: the prompt shown, or "returned"/"raised"; typed: what was typed at the
\* rating prompts so far; entered: the rating the loop ended with; event: what
\* input() raised; rated, rating, comment: the tuple returned
NoPrompt ==
  [pc |-> "none", typed |-> <<>>, entered |-> 0, event |-> "none", at |-> "none",
   rated |-> FALSE, rating |-> 0, comment |-> NoneMsg, out |-> {}]

RatingTexts ==
  { <<"s">>, <<" ", "S", "K", "I", "P">>, <<"3">>, <<" ", "5", " ">>, <<"0">>, <<"6">>,
    <<"1", "0">>, <<"-", "1">>, <<"x">>, <<>> }

CommentTexts == {<<>>, <<" ">>, <<" ", "H", "a">>}

InputEvents == {"EOFError", "KeyboardInterrupt", "RuntimeError"}

\* what an exception raised by input() at the given prompt leads to
PromptRaised(kind, where) ==
  IF in_try(where) /\ prompt_except(kind) # "raise"
  THEN [prompting EXCEPT !.pc = "returned", !.event = kind, !.at = where,
                         !.out = @ \cup {prompt_except(kind)}]
  ELSE [prompting EXCEPT !.pc = "raised", !.event = kind, !.at = where]

(***************************************************************************)
(* Actions of the prompt specification                                     *)
(***************************************************************************)
RatingInput ==
  \E typed \in RatingTexts :
    LET r == rating_prompt(typed)
    IN  /\ prompting.pc = "rating"
        /\ Len(prompting.typed) < MaxPrompts
        /\ prompting' =
             [prompting EXCEPT
                !.typed = Append(@, typed),
                !.pc = IF r.step = "skip" THEN "returned"
                       ELSE IF r.step = "break" THEN "comment" ELSE "rating",
                !.entered = r.rating,
                !.out = IF r.step = "again" THEN @ \cup {"invalid rating"} ELSE @]
        /\ UNCHANGED <<call, storage_file, op, saved, history, gateway, run, writers,
                       service>>

CommentInput ==
  \E typed \in CommentTexts :
    /\ prompting.pc = "comment"
    /\ prompting' = [prompting EXCEPT !.pc = "returned", !.rated = TRUE,
                                      !.rating = prompting.entered,
                                      !.comment = comment_prompt(typed)]
    /\ UNCHANGED <<call, storage_file, op, saved, history, gateway, run, writers, service>>

InputRaises ==
  \E kind \in InputEvents :
    /\ prompting.pc \in {"rating", "comment"}
    /\ prompting' = PromptRaised(kind, prompting.pc)
    /\ UNCHANGED <<call, storage_file, op, saved, history, gateway, run, writers, service>>

(***************************************************************************)
(* One JokeService and the generate_joke calls made on it.  The service    *)
(* keeps its gateway client in _bedrock_client; the client is known here   *)
(* by the profile it was created for.                                      *)
(***************************************************************************)
\* JokeService(): _bedrock_client is None, written as the empty sequence
NoService ==
  [pc |-> "none", bedrock_client |-> <<>>, calls |-> 0,
   last |-> [aws_profile |-> None, category |-> None, model_id |-> None, invoked |-> 0,
             through |-> "not called", success |-> FALSE, raised |-> "none"],
   \* the generate_joke call in progress: the phases it has reached, its
   \* arguments, the calls of invoke_model it made, what the gateway
   \* answered, and how it ended
   phase |-> "Idle", passed |-> <<>>, category_arg |-> None, category |-> None,
   model_id |-> None, invocations |-> 0, gw |-> GwNotCalled,
   raised |-> "none", response |-> NoResponse]

\* create_bedrock_client(profile=profile)
create_bedrock_client(profile) == [profile |-> profile]

\* JokeService._get_bedrock_client(profile): the service afterwards, whose
\* _bedrock_client is the client returned
get_bedrock_client(self, profile) ==
  IF self.bedrock_client = <<>>
  THEN [self EXCEPT !.bedrock_client = <<create_bedrock_client(profile)>>]
  ELSE self

ServiceProfiles == {None, "work", "play"}

ServiceGatewayOutcomes ==
  { GwText(<<"H", "a">>), GwText(<<" ">>),
    GwRaise("BedrockClientError", <<"Access denied to Bedrock model">>) }

\* generate_joke(category, aws_profile, model_id) on the service: the client is
\* fetched only when the call gets as far as the gateway
GenerateJokeWithProfile ==
  \E choice \in CategoryChoices, aws_profile \in ServiceProfiles,
     model_id \in ModelIdArgs, gw \in ServiceGatewayOutcomes :
    /\ service.pc = "run"
    /\ service.calls < MaxCalls
    /\ LET r    == generate_joke(choice[1], model_id, choice[2], gw, UUID1, Now)
           self == IF r.invoked = 1 THEN get_bedrock_client(service, aws_profile)
                   ELSE service
       IN  service' = [self EXCEPT
                         !.calls = @ + 1,
                         !.last = [aws_profile |-> aws_profile, category |-> choice[1],
                                   model_id |-> model_id, invoked |-> r.invoked,
                                   through |-> IF r.invoked = 1
                                               THEN self.bedrock_client[1].profile
                                               ELSE "not called",
                                   success |-> r.response.success,
                                   raised |-> r.raised]]
    /\ UNCHANGED <<call, storage_file, op, saved, history, gateway, run, writers, prompting>>

(***************************************************************************)
(* One generate_joke call, statement by statement.  A step that leaves the *)
(* try block, by a return or through an except clause, ends the call with  *)
(* what generate_joke gives for the same arguments and gateway outcome.    *)
(***************************************************************************)
PhaseGatewayOutcomes ==
  { GwText(<<"H", "a">>), GwText(<<" ", "H", "a", "\n">>), GwText(<<>>),
    GwText(prefixes_to_remove[3] \o <<" ">> \o lower(suffixes_to_remove[1])),
    GwText(prefixes_to_remove[3] \o <<" ", "H", "a">>),
    GwRaise("BedrockClientError", <<>>),
    GwRaise("BedrockClientError", <<"Access denied to Bedrock model">>),
    GwRaise("Exception", <<>>), GwRaise("Exception", <<"boom">>) }

\* the call has ended: with a success response, a failure response, or an
\* exception raised to the caller
Ended(self, r) ==
  [self EXCEPT !.phase = IF r.raised # "none" THEN "Raised"
                         ELSE IF r.response.success THEN "Success" ELSE "Failed",
               !.passed = Append(@, IF r.raised # "none" THEN "Raised"
                                    ELSE IF r.response.success THEN "Success"
                                    ELSE "Failed"),
               !.raised = r.raised, !.response = r.response]

Reached(self, phase) == [self EXCEPT !.phase = phase, !.passed = Append(@, phase)]

\* lines 75-85: the category is picked or validated
ResolveCategory ==
  \E choice \in CategoryChoices, model_id \in ModelIdArgs :
    /\ service.pc = "call"
    /\ service.phase = "Idle"
    /\ LET self == [service EXCEPT !.category_arg = choice[1], !.category = choice[2],
                                   !.model_id = model_id]
       IN  service' =
             IF choice[1] # None /\ ~validate_category(choice[1])
             THEN Ended(self, generate_joke(choice[1], model_id, choice[2], GwNotCalled,
                                            UUID1, Now))
             ELSE Reached(self, "CategoryResolved")
    /\ UNCHANGED <<call, storage_file, op, saved, history, gateway, run, writers, prompting>>

\* lines 88-102: default model, prompt lookup and BedrockConfig
BuildPrompt ==
  /\ service.pc = "call"
  /\ service.phase = "CategoryResolved"
  /\ LET model_id == IF service.model_id = None THEN "us.anthropic.claude-sonnet-4-20250514-v1:0"
                     ELSE service.model_id
     IN  service' =
           IF get_joke_prompt_error(service.category) # NoneMsg \/ ~BedrockConfig_ok(model_id)
           THEN Ended(service, generate_joke(service.category_arg, service.model_id,
                                             service.category, GwNotCalled, UUID1, Now))
           ELSE Reached(service, "PromptBuilt")
  /\ UNCHANGED <<call, storage_file, op, saved, history, gateway, run, writers, prompting>>

\* lines 105-106: the client is fetched and invoke_model is called
InvokeGateway ==
  \E gw \in PhaseGatewayOutcomes :
    /\ service.pc = "call"
    /\ service.phase = "PromptBuilt"
    /\ service' = [Reached(get_bedrock_client(service, None), "ModelInvoked")
                     EXCEPT !.invocations = @ + 1, !.gw = gw]
    /\ UNCHANGED <<call, storage_file, op, saved, history, gateway, run, writers, prompting>>

\* lines 108-124: the text is cleaned and the response built, or the
\* exception of invoke_model is handled
Respond ==
  /\ service.pc = "call"
  /\ service.phase = "ModelInvoked"
  /\ service' = Ended(service, generate_joke(service.category_arg, service.model_id,
                                             service.category, service.gw, UUID1, Now))
  /\ UNCHANGED <<call, storage_file, op, saved, history, gateway, run, writers, prompting>>

(***************************************************************************)
(* Actions of the command-line specification: the steps of main.  A step   *)
(* that ends the run goes through main's except clauses to sys.exit.       *)
(***************************************************************************)
Exits(r, end) ==
  [r EXCEPT !.pc = "exit", !.exit_code = main_exit(end).exit_code,
            !.out = r.out \cup main_exit(end).out]

\* parse_arguments and validate_arguments
ParseArguments ==
  \E argv \in CommandLines, profile_exists \in BOOLEAN,
     at_parse \in Interrupts, at_validate \in Interrupts :
    LET p == parse_arguments(argv, at_parse)
        v == validate_arguments(argv, profile_exists, at_validate)
        end == IF p.raised # "none" THEN p ELSE v
        r == [run EXCEPT !.args = argv,
                         !.interrupted = IF at_parse # "none" THEN "parse"
                                         ELSE IF at_validate # "none" THEN "validate"
                                         ELSE "none"]
    IN  /\ run.pc = "start"
        \* an input that cannot matter takes one value
        /\ at_parse # "none" => argv = NoArgs
        /\ (p.raised # "none" \/ argv.profile = None \/ argv.stats)
             => (profile_exists /\ at_validate = "none")
        /\ at_validate # "none" => profile_exists
        /\ run' = IF end.raised # "none" THEN Exits(r, end)
                  ELSE [r EXCEPT !.pc = IF argv.stats THEN "stats" ELSE "generate"]
        /\ UNCHANGED <<call, storage_file, op, saved, history, gateway, writers, prompting, service>>

DisplayStatistics ==
  \E mkdir_ok \in BOOLEAN :
    LET read == IF ~mkdir_ok THEN "no directory"
                ELSE IF storage_file.kind = "unreadable" THEN "IOError"
                ELSE get_feedback_stats(storage_file).raised
    IN  /\ run.pc = "stats"
        /\ run' = Exits([run EXCEPT !.read = read],
                        display_statistics(storage_file, mkdir_ok))
        /\ UNCHANGED <<call, storage_file, op, saved, history, gateway, writers, prompting, service>>

OrchestrateJokeGeneration ==
  \E mkdir_ok \in BOOLEAN, gw \in CliGatewayOutcomes :
    LET o == orchestrate_generation(run.args, mkdir_ok, "general", gw, UUID1, Now)
        r == [run EXCEPT !.response = o.response, !.shown = o.shown,
                         !.interrupted = IF mkdir_ok /\ gw.kind = "KeyboardInterrupt"
                                         THEN "generate" ELSE "none"]
    IN  /\ run.pc = "generate"
        /\ ~mkdir_ok => gw = GwText(<<"H", "a">>)
        /\ run' = IF o.shown /\ ~run.args.no_feedback
                  THEN [r EXCEPT !.pc = "feedback", !.out = r.out \cup o.end.out]
                  ELSE Exits(r, o.end)
        /\ UNCHANGED <<call, storage_file, op, saved, history, gateway, writers, prompting, service>>

CollectFeedback ==
  \E answer \in PromptAnswers, at_save \in Interrupts, io \in IoOutcomes :
    LET b == feedback_block(storage_file, run.response, answer, at_save, io,
                            NowFor(answer.comment))
        p == prompt_for_feedback(answer)
        c == collect_user_feedback(storage_file, run.response, p.rating, p.comment,
                                   NowFor(answer.comment), io)
        what == IF answer.kind = "skip" THEN "skipped"
                ELSE IF answer.kind = "KeyboardInterrupt" THEN "interrupt at prompt"
                ELSE IF answer.kind # "rating" THEN "exception at prompt"
                ELSE IF at_save # "none" THEN "interrupt at save"
                ELSE IF c.save_raised # "none" THEN "save failed"
                ELSE "saved"
    IN  /\ run.pc = "feedback"
        /\ answer.kind # "rating" => (at_save = "none" /\ io = "ok")
        /\ at_save # "none" => io = "ok"
        /\ run' = Exits([run EXCEPT !.feedback = what], b.end)
        /\ storage_file' = b.file
        /\ UNCHANGED <<call, op, saved, history, gateway, writers, prompting, service>>

(***************************************************************************)
(* Specifications                                                          *)
(***************************************************************************)
Init ==
  /\ call = NoCall
  /\ storage_file = MissingFile
  /\ op = NoOp
  /\ saved = <<>>
  /\ history = "saves"
  /\ gateway = NoGateway
  /\ run = NoRun
  /\ writers = NoWriters
  /\ prompting = NoPrompt
  /\ service = NoService

\* the generation service and the JokeResponse constructors
Next == GenerateJoke \/ Construct \/ CreateSuccess \/ CreateError

Spec == Init /\ [][Next]_vars

\* the feedback store and the feedback collection of the service
NextStore ==
  SaveFeedback \/ ClearAllFeedback \/ GetAllFeedback \/ GetFeedbackStats
    \/ CollectUserFeedback

SpecStore == Init /\ [][NextStore]_vars

\* the readers of the store, started on a storage file that is already there
InitLoad ==
  /\ call = NoCall
  /\ storage_file \in LoadFiles
  /\ op = NoOp
  /\ saved = <<>>
  /\ history = "found"
  /\ gateway = NoGateway
  /\ run = NoRun
  /\ writers = NoWriters
  /\ prompting = NoPrompt
  /\ service = NoService

NextLoad == GetAllFeedback \/ GetFeedbackStats

SpecLoad == InitLoad /\ [][NextLoad]_vars

\* appends to, and reads of, a storage file that is already there
NextAppend == SaveFeedback \/ GetAllFeedback

SpecAppend == InitLoad /\ [][NextAppend]_vars

\* one call of prompt_for_feedback
InitPrompt ==
  /\ call = NoCall
  /\ storage_file = MissingFile
  /\ op = NoOp
  /\ saved = <<>>
  /\ history = "saves"
  /\ gateway = NoGateway
  /\ run = NoRun
  /\ writers = NoWriters
  /\ prompting = [NoPrompt EXCEPT !.pc = "rating"]
  /\ service = NoService

NextPrompt == RatingInput \/ CommentInput \/ InputRaises

SpecPrompt == InitPrompt /\ [][NextPrompt]_vars

\* one JokeService created without a client
InitService ==
  /\ call = NoCall
  /\ storage_file = MissingFile
  /\ op = NoOp
  /\ saved = <<>>
  /\ history = "saves"
  /\ gateway = NoGateway
  /\ run = NoRun
  /\ writers = NoWriters
  /\ prompting = NoPrompt
  /\ service = [NoService EXCEPT !.pc = "run"]

NextService == GenerateJokeWithProfile

SpecService == InitService /\ [][NextService]_vars

\* one generate_joke call on a new JokeService
InitPhases ==
  /\ call = NoCall
  /\ storage_file = MissingFile
  /\ op = NoOp
  /\ saved = <<>>
  /\ history = "saves"
  /\ gateway = NoGateway
  /\ run = NoRun
  /\ writers = NoWriters
  /\ prompting = NoPrompt
  /\ service = [NoService EXCEPT !.pc = "call"]

NextPhases == ResolveCategory \/ BuildPrompt \/ InvokeGateway \/ Respond

SpecPhases == InitPhases /\ [][NextPhases]_vars

\* two processes that each call save_feedback once
InitRace ==
  /\ call = NoCall
  /\ storage_file \in {MissingFile, JsonFile(StoredData)}
  /\ op = NoOp
  /\ saved = <<>>
  /\ history = "found"
  /\ gateway = NoGateway
  /\ run = NoRun
  /\ writers = [NoWriters EXCEPT !.pc = "run", !.before = storage_file.feedback_entries]
  /\ prompting = NoPrompt
  /\ service = NoService

NextRace == \E p \in Procs : LoadForSave(p) \/ OpenForSave(p) \/ WriteForSave(p)

SpecRace == InitRace /\ [][NextRace]_vars

\* one BedrockClient instance and the invoke_model calls made on it
InitGateway ==
  /\ call = NoCall
  /\ storage_file = MissingFile
  /\ op = NoOp
  /\ saved = <<>>
  /\ history = "saves"
  /\ gateway \in {[NoGateway EXCEPT !.self = NewBedrockClient(p)] : p \in Profiles}
  /\ run = NoRun
  /\ writers = NoWriters
  /\ prompting = NoPrompt
  /\ service = NoService

NextGateway == InvokeModel \/ TestConnection

SpecGateway == InitGateway /\ [][NextGateway]_vars

\* one run of main, on a storage file that may be there already
InitCli ==
  /\ call = NoCall
  /\ storage_file \in CliFiles
  /\ op = NoOp
  /\ saved = <<>>
  /\ history = "found"
  /\ gateway = NoGateway
  /\ run = [NoRun EXCEPT !.pc = "start"]
  /\ writers = NoWriters
  /\ prompting = NoPrompt
  /\ service = NoService

NextCli ==
  ParseArguments \/ DisplayStatistics \/ OrchestrateJokeGeneration \/ CollectFeedback

SpecCli == InitCli /\ [][NextCli]_vars

(***************************************************************************)
(* Properties of generate_joke and JokeResponse (checked under Spec)       *)
(***************************************************************************)
FixedCategories == {"general", "programming", "dad-jokes", "puns", "clean"}

Unrecognized(c) == c # None /\ c \notin FixedCategories

\* C1: generate_joke never raises to its caller: for every category argument
\* and every gateway outcome (text, a BedrockClientError with any message,
\* any other Exception) the call returns a JokeResponse.
C1_NeverRaises == call.op = "generate_joke" => call.raised = "none"

\* C2: every JokeResponse that construction accepts is either a success with
\* non-empty joke text and no error message, or a failure with an error
\* message present and empty joke text, and never both.
C2_ExactlyOne ==
  (call.op \in {"JokeResponse", "create_success", "create_error"} /\ call.raised = "none")
    => LET r == call.response
           good == r.success /\ r.joke_text # <<>> /\ r.error_message = NoneMsg
           bad  == ~r.success /\ Truthy(r.error_message) /\ r.joke_text = <<>>
       IN  (good \/ bad) /\ ~(good /\ bad)

C4_InvalidNeverInvokes ==
  (call.op = "generate_joke" /\ Unrecognized(call.category))
    => /\ call.raised = "none"
       /\ ~call.response.success
       /\ call.invoked = 0
       /\ call.gw = GwNotCalled

C4_Witness ==
  /\ call.op = "generate_joke"
  /\ call.category = "invalid-category"
  /\ ~call.response.success
  /\ call.invoked = 0

\* C5: for every unrecognized category name the error_message of the returned
\* JokeResponse contains the offending name and the valid category names.
C5_MessageNamesValidSet ==
  (call.op = "generate_joke" /\ Unrecognized(call.category) /\ call.raised = "none")
    => /\ Contains(call.response.error_message, call.category)
       /\ \A c \in FixedCategories : Contains(call.response.error_message, c)

\* C13: the text cleaner is idempotent: cleaning the text it returned gives
\* that text again, for every gateway text, those beginning with two
\* lead-ins or ending with two sign-offs included.
C13_CleanerIdempotent ==
  (call.op = "generate_joke" /\ call.gw.kind = "text")
    => clean_joke_text(clean_joke_text(call.gw.text)) = clean_joke_text(call.gw.text)

(***************************************************************************)
(* Properties of the feedback store (checked under SpecStore)              *)
(***************************************************************************)
EntriesOf(file) == IF file.kind = "json" THEN file.feedback_entries ELSE <<>>

\* C6: collect_user_feedback on a JokeResponse whose success is false returns
\* false, does not call save_feedback and leaves the storage file as it was.
C6_FailedResponseUntouched ==
  [][(op'.name = "collect_user_feedback" /\ ~op'.response.success)
       => (op'.ret = FALSE /\ ~op'.save_called /\ storage_file' = storage_file)]_vars

C6_Witness ==
  /\ op.name = "collect_user_feedback"
  /\ ~op.response.success
  /\ op.ret = FALSE
  /\ Len(EntriesOf(storage_file)) > 0

\* the step appended one record carrying the rated response and the rating
Appended ==
  /\ storage_file'.kind = "json"
  /\ Len(storage_file'.feedback_entries) = Len(EntriesOf(storage_file)) + 1
  /\ SubSeq(storage_file'.feedback_entries, 1, Len(EntriesOf(storage_file)))
       = EntriesOf(storage_file)
  /\ LET e == storage_file'.feedback_entries[Len(storage_file'.feedback_entries)]
     IN  /\ e.joke_id = op'.response.joke_id
         /\ e.joke_text = op'.response.joke_text
         /\ e.category = op'.response.category
         /\ e.rating = op'.rating

\* C7: collect_user_feedback never raises; it returns true exactly when the
\* entry was appended to the store, and false when save_feedback failed.
C7_TrueIffAppended ==
  [][op'.name = "collect_user_feedback"
       => /\ op'.raised = "none"
          /\ op'.ret = TRUE <=> Appended
          /\ op'.save_raised # "none" => op'.ret = FALSE]_vars

C7_Witness ==
  /\ op.name = "collect_user_feedback"
  /\ op.save_called
  /\ op.save_raised = "RuntimeError"
  /\ op.ret = FALSE

\* C8: if save_feedback fails with an I/O error, when opening the file or
\* part-way through writing it, the storage file afterwards holds exactly the
\* contents it held before the call.
C8_FailedSaveKeepsFile ==
  [][(op'.name = "save_feedback" /\ op'.raised # "none")
       => storage_file' = storage_file]_vars

\* C9: from a missing file, N successful save_feedback calls followed by
\* get_all_feedback return exactly the N entries saved, in the order saved,
\* each with the joke id, text, category, rating, comment and timestamp saved.
C9_RoundTrip ==
  (op.name = "get_all_feedback" /\ history = "saves") => op.entries = saved

C9_Witness ==
  /\ op.name = "get_all_feedback"
  /\ history = "saves"
  /\ Len(op.entries) >= 2
  /\ \E i, j \in 1..Len(op.entries) :
       /\ op.entries[i].timestamp.usec # 0 /\ op.entries[i].user_comment # None
       /\ op.entries[j].timestamp.usec = 0 /\ op.entries[j].user_comment = None

RECURSIVE TotalRating(_)
TotalRating(es) == IF es = <<>> THEN 0 ELSE es[1].rating + TotalRating(Tail(es))

InCategory(es, c) == SelectSeq(es, LAMBDA e : e.category = c)

\* avg (in hundredths) is exactly the mean of the ratings of es
ExactMean(avg, es) == avg * Len(es) = 100 * TotalRating(es)

\* avg (in hundredths) is the mean of the ratings of es rounded to 2 decimals
RoundedMean(avg, es) ==
  LET d == avg * Len(es) - 100 * TotalRating(es)
  IN  2 * d <= Len(es) /\ -2 * d <= Len(es)

StatsAgree(stats, es, IsMean(_, _)) ==
  /\ stats.total_jokes = Len(es)
  /\ IF es = <<>> THEN stats.average_rating = 0 ELSE IsMean(stats.average_rating, es)
  /\ DOMAIN stats.category_stats = {es[i].category : i \in 1..Len(es)}
  /\ \A c \in DOMAIN stats.category_stats :
       /\ stats.category_stats[c].count = Len(InCategory(es, c))
       /\ IsMean(stats.category_stats[c].avg_rating, InCategory(es, c))

ClearedIsZero ==
  (op.name = "clear_all_feedback" /\ op.raised = "none")
    => /\ get_feedback_stats(storage_file).stats.total_jokes = 0
       /\ get_feedback_stats(storage_file).stats.average_rating = 0
       /\ DOMAIN get_feedback_stats(storage_file).stats.category_stats = {}

\* C10 as stated: after successful save_feedback and clear_all_feedback
\* operations from a missing file, get_feedback_stats agrees with
\* get_all_feedback, average_rating and each category's average being the
\* mean rating; after clear_all_feedback it is total 0, average 0, no
\* categories.
C10_StatsAreMeans ==
  /\ (op.name = "get_feedback_stats" /\ history # "failed")
       => StatsAgree(op.stats, get_all_feedback(storage_file).entries, ExactMean)
  /\ ClearedIsZero

\* C10 as amended: the same, average_rating and each category's average
\* being the mean rating rounded to two decimals.
C10_StatsAreRoundedMeans ==
  /\ (op.name = "get_feedback_stats" /\ history # "failed")
       => StatsAgree(op.stats, get_all_feedback(storage_file).entries, RoundedMean)
  /\ ClearedIsZero

\* statistics of three entries whose mean rating has more than two decimals
C10_Witness ==
  /\ op.name = "get_feedback_stats"
  /\ history # "failed"
  /\ op.stats.total_jokes >= 3
  /\ ~ExactMean(op.stats.average_rating, get_all_feedback(storage_file).entries)

(***************************************************************************)
(* Properties of the readers on a file found at start (checked under       *)
(* SpecLoad)                                                               *)
(***************************************************************************)
\* C11: for a storage file that is not a well-formed feedback document (text
\* that is not JSON, or valid JSON without the feedback_entries and stats
\* fields) get_feedback_stats and get_all_feedback do not raise and return
\* what they return for a missing file.
C11_MalformedIsMissing ==
  (op.name \in {"get_feedback_stats", "get_all_feedback"}
     /\ storage_file.kind \in {"not json", "json without fields"})
    => /\ op.raised = "none"
       /\ op.name = "get_feedback_stats" => op.stats = get_feedback_stats(MissingFile).stats
       /\ op.name = "get_all_feedback" => op.entries = get_all_feedback(MissingFile).entries

\* a stored record with every field, a UUID joke id, a category, a rating in
\* 1..5 and a timestamp that parses
WellFormedRecord(d) ==
  /\ {"joke_id", "joke_text", "category", "rating", "timestamp"} \subseteq DOMAIN d
  /\ d.joke_id \in {UUID1, UUID2}
  /\ d.category # ""
  /\ d.rating \in 1..5
  /\ Len(d.timestamp) \in {1, 2}

EntryOfRecord(d) ==
  [joke_id |-> d.joke_id, joke_text |-> d.joke_text, category |-> d.category,
   rating |-> d.rating,
   timestamp |-> [kind |-> "datetime", sec |-> d.timestamp[1],
                  usec |-> IF Len(d.timestamp) = 2 THEN d.timestamp[2] ELSE 0],
   user_comment |-> d.user_comment]

RECURSIVE WellFormedEntries(_)
WellFormedEntries(ds) ==
  IF ds = <<>> THEN <<>>
  ELSE IF WellFormedRecord(Head(ds))
  THEN <<EntryOfRecord(Head(ds))>> \o WellFormedEntries(Tail(ds))
  ELSE WellFormedEntries(Tail(ds))

\* C12: get_all_feedback returns exactly the well-formed records of the
\* stored list, in stored order; a record that fails conversion or validation
\* is omitted without raising and no well-formed record is omitted.
C12_SkipsOnlyBadRecords ==
  (op.name = "get_all_feedback" /\ storage_file.kind = "json")
    => /\ op.raised = "none"
       /\ op.entries = WellFormedEntries(storage_file.feedback_entries)

\* a damaged record between two well-formed ones
C12_Witness ==
  /\ op.name = "get_all_feedback"
  /\ storage_file.kind = "json"
  /\ Len(storage_file.feedback_entries) = 3
  /\ ~WellFormedRecord(storage_file.feedback_entries[2])
  /\ Len(op.entries) = 2
  /\ op.entries[1].category = "puns" /\ op.entries[2].category = "general"

(***************************************************************************)
(* Properties of BedrockClient.invoke_model (checked under SpecGateway)    *)
(***************************************************************************)
Invoked == gateway.last.op = "invoke_model"

\* the generation request was sent to the provider
Sent == Invoked /\ gateway.last.request # "none"

\* the provider answered the generation request with a response
Answered == Invoked /\ gateway.last.parsed # "none"

\* C14: each invoke_model call makes exactly one generation attempt against
\* the provider, and a transient failure (throttling, service unavailable)
\* is surfaced without a second attempt, the boto3 client's retry
\* configuration included.
C14_SingleAttempt ==
  Sent => /\ gateway.last.attempts = 1
          /\ gateway.last.answer.transient > 0 => gateway.last.raised

\* the texts in the generated-text fields of a response of the given shape
GeneratedTextFields(shape, body) ==
  IF shape = "converse"
  THEN IF /\ "output" \in DOMAIN body
          /\ "message" \in DOMAIN body.output
          /\ "content" \in DOMAIN body.output.message
          /\ body.output.message.content # <<>>
          /\ "text" \in DOMAIN body.output.message.content[1]
       THEN {body.output.message.content[1].text} ELSE {}
  ELSE IF shape = "titan"
  THEN IF /\ "results" \in DOMAIN body
          /\ body.results # <<>>
          /\ "outputText" \in DOMAIN body.results[1]
       THEN {body.results[1].outputText} ELSE {}
  ELSE IF shape = "claude"
  THEN IF "completion" \in DOMAIN body THEN {body.completion} ELSE {}
  ELSE {body[k] : k \in {"generated_text", "text", "output"} \cap DOMAIN body}

\* C15: for every provider shape, when the response carries no generated
\* text or only whitespace text invoke_model fails with the empty-output
\* error; it never returns an empty or whitespace-only string, nor text that
\* was not taken from a generated-text field of the response.
C15_EmptyOutputIsAnError ==
  Answered =>
    LET texts  == GeneratedTextFields(gateway.last.parsed, gateway.last.answer.final.body)
        usable == {t \in texts : strip(t) # <<>>}
    IN  /\ usable = {} => /\ gateway.last.raised
                          /\ Contains(gateway.last.msg, "Model returned empty response")
        /\ ~gateway.last.raised => /\ strip(gateway.last.text) # <<>>
                                   /\ \E t \in usable : gateway.last.text = strip(t)

HasMarker(model_id, marker) == contains(lower(model_id), marker)

HasChatMarker(model_id) ==
  HasMarker(model_id, marker_claude_3) \/ HasMarker(model_id, marker_sonnet_4)

\* the shape as the claim states it: claude without the chat marker is the
\* legacy human/assistant format, titan the structured-field format
ShapeAsStated(model_id) ==
  IF HasChatMarker(model_id) THEN {"converse"}
  ELSE   (IF HasMarker(model_id, marker_claude) THEN {"claude"} ELSE {})
    \cup (IF HasMarker(model_id, marker_titan) THEN {"titan"} ELSE {})
    \cup (IF ~HasMarker(model_id, marker_claude) /\ ~HasMarker(model_id, marker_titan)
          THEN {"generic"} ELSE {})

\* the shape with titan tested before claude
ShapeTitanFirst(model_id) ==
  IF HasChatMarker(model_id) THEN "converse"
  ELSE IF HasMarker(model_id, marker_titan) THEN "titan"
  ELSE IF HasMarker(model_id, marker_claude) THEN "claude"
  ELSE "generic"

\* C16 as stated: the shape is a function of the model identifier by
\* case-insensitive substring match (chat marker: chat-style; claude without
\* it: legacy human/assistant; titan: legacy structured-field; else generic
\* legacy), and the response is parsed in the shape the request was built in.
C16_ShapeAsStated ==
  Sent => /\ ShapeAsStated(gateway.last.model_id) = {gateway.last.request}
          /\ Answered => gateway.last.parsed = gateway.last.request

\* C16 as amended: the same, an identifier without the chat marker that
\* contains titan selecting the structured-field format whether or not it
\* contains claude.
C16_ShapeTitanFirst ==
  Sent => /\ gateway.last.request = ShapeTitanFirst(gateway.last.model_id)
          /\ Answered => gateway.last.parsed = gateway.last.request

\* a call whose identifier names both titan and claude, built and parsed in
\* the structured-field format
C16_Witness ==
  /\ Answered
  /\ ~HasChatMarker(gateway.last.model_id)
  /\ HasMarker(gateway.last.model_id, marker_claude)
  /\ HasMarker(gateway.last.model_id, marker_titan)
  /\ gateway.last.request = "titan"
  /\ gateway.last.parsed = "titan"
  /\ ~gateway.last.raised

\* C17: when the configured credential profile does not exist (the
\* credential check is rejected with an invalid-profile error, or the session
\* cannot be created for that profile) the call fails with the
\* invalid-profile error naming that profile.
C17_InvalidProfileNamed ==
  (Invoked /\ \/ (gateway.self.profile # None /\ ~gateway.last.profile_exists)
              \/ (gateway.last.probes = 1
                    /\ gateway.last.probe = FinalClientError("InvalidUserID.NotFound")))
    => /\ gateway.last.raised
       /\ Contains(gateway.last.msg, "AWS profile '")
       /\ Contains(gateway.last.msg,
                   IF gateway.self.profile = None THEN "default" ELSE gateway.self.profile)

(***************************************************************************)
(* Properties of main (checked under SpecCli)                              *)
(***************************************************************************)
Exited == run.pc = "exit"

FeedbackFailures ==
  {"save failed", "interrupt at prompt", "exception at prompt", "interrupt at save"}

\* C18: once a joke has been generated and shown, no failure during feedback
\* collection (a failed save, an interrupt or an unexpected exception at the
\* prompt, an interrupt while saving) changes the outcome: main exits with
\* the success code 0.
C18_FeedbackFailureExitsZero ==
  (Exited /\ run.shown /\ run.feedback \in FeedbackFailures)
    => /\ run.exit_code = EXIT_SUCCESS
       /\ "joke" \in run.out

\* a run that showed a joke, could not save the rating, and warned
C18_Witness ==
  /\ Exited
  /\ run.shown
  /\ run.feedback = "save failed"
  /\ "warning" \in run.out
  /\ run.exit_code = EXIT_SUCCESS

\* C19: a storage failure while reading feedback for the statistics display
\* is a hard failure (error shown, non-zero exit) and is never presented as
\* the report without data, whereas a storage failure while saving feedback
\* is only a warning.
C19_FailedReadIsHardFailure ==
  /\ (Exited /\ run.args.stats /\ run.read # "none")
       => /\ run.exit_code # EXIT_SUCCESS
          /\ "error" \in run.out
          /\ "no feedback data" \notin run.out
  /\ (Exited /\ run.feedback = "save failed")
       => /\ run.exit_code = EXIT_SUCCESS
          /\ "warning" \in run.out

\* C20: an interrupt raised while the arguments are parsed or while
\* generate_joke runs is not converted into a failed JokeResponse; it reaches
\* main, which ends the run with exit code 130.
C20_InterruptReachesMain ==
  (Exited /\ run.interrupted \in {"parse", "validate", "generate"})
    => /\ run.exit_code = EXIT_USER_CANCELLED
       /\ run.response = NoResponse
       /\ "cancelled" \in run.out
       /\ "error" \notin run.out

\* a run interrupted while generate_joke was calling the gateway
C20_Witness ==
  /\ Exited
  /\ run.interrupted = "generate"
  /\ run.exit_code = EXIT_USER_CANCELLED

(***************************************************************************)
(* Further properties of the feedback store (checked under SpecStore)      *)
(***************************************************************************)
\* C22: every record collect_user_feedback persists has a rating in 1..5 and
\* the joke id, text and category of a successful JokeResponse; a call with a
\* rating outside 1..5 persists nothing, leaves the store unchanged and
\* returns false.
C22_PersistedRatingInRange ==
  [][op'.name = "collect_user_feedback"
       => /\ op'.rating \notin 1..5
               => (op'.ret = FALSE /\ ~op'.save_called /\ storage_file' = storage_file)
          /\ (storage_file'.kind = "json" /\ storage_file' # storage_file)
               => /\ Appended
                  /\ op'.response.success
                  /\ op'.rating \in 1..5
                  /\ IsUUID(op'.response.joke_id)]_vars

\* a call with rating 6 on a store that holds an entry
C22_Witness ==
  /\ op.name = "collect_user_feedback"
  /\ op.response.success
  /\ op.rating = 6
  /\ op.ret = FALSE
  /\ Len(EntriesOf(storage_file)) > 0

IsPrefix(s, t) == Len(s) <= Len(t) /\ SubSeq(t, 1, Len(s)) = s

\* C26: the log is append-only: across any sequence of store operations,
\* failing ones included, the entries already persisted are neither removed
\* nor altered except by clear_all_feedback, and after a successful
\* save_feedback the previous list is a prefix of the new one, which is one
\* entry longer.
C26_AppendOnly ==
  [][op'.name # "clear_all_feedback"
       => /\ IsPrefix(EntriesOf(storage_file), EntriesOf(storage_file'))
          /\ (op'.name = "save_feedback" /\ op'.raised = "none")
               => Len(EntriesOf(storage_file')) = Len(EntriesOf(storage_file)) + 1]_vars

(***************************************************************************)
(* Properties of appends to a file found at start (checked under           *)
(* SpecAppend)                                                             *)
(***************************************************************************)
\* a stored record without its rating or its category
LacksStatsField(record) == ~({"rating", "category"} \subseteq DOMAIN record)

HoldsDamagedRecord(file) ==
  /\ file.kind = "json"
  /\ \E i \in 1..Len(file.feedback_entries) : LacksStatsField(file.feedback_entries[i])

\* C27: a corrupted record in the storage file (one lacking its rating or
\* category) does not block later appends: unless the file system fails the
\* write, save_feedback on such a file succeeds and the new entry is the last
\* record of the file afterwards.
C27_DamagedRecordDoesNotBlock ==
  [][(op'.name = "save_feedback" /\ HoldsDamagedRecord(storage_file)
        /\ op'.raised # "RuntimeError")
       => /\ op'.raised = "none"
          /\ storage_file'.kind = "json"
          /\ Len(storage_file'.feedback_entries) = Len(storage_file.feedback_entries) + 1]_vars

(***************************************************************************)
(* Properties of concurrent saves (checked under SpecRace)                 *)
(***************************************************************************)
BothDone == \A p \in Procs : writers.w[p].pc = "done"

\* C25: when two processes run save_feedback concurrently on one storage
\* file, in every interleaving the final file is exactly the document of the
\* writer that finished last (the entries it loaded plus its own, with
\* statistics computed from those), and the entries persisted before both
\* calls began are kept.
C25_LastWriterWins ==
  (writers.pc = "run" /\ BothDone)
    => LET winner == writers.w[writers.last]
       IN  /\ storage_file = JsonFile(winner.data)
           /\ Len(storage_file.feedback_entries) = Len(winner.loaded) + 1
           /\ storage_file.stats = update_statistics(storage_file.feedback_entries)
           /\ IsPrefix(writers.before, storage_file.feedback_entries)

(***************************************************************************)
(* Properties of prompt_for_feedback (checked under SpecPrompt)            *)
(***************************************************************************)
SkipWords == {<<"s">>, <<"s", "k", "i", "p">>}

\* what was typed, without the blanks around it and in lower case
Normal(typed) == lower(strip(typed))

\* the texts that are an integer in 1..5
RatingWords == {<<"1">>, <<"2">>, <<"3">>, <<"4">>, <<"5">>}

RatingOfWord(w) == CHOOSE n \in 1..5 : <<Digits[n + 1]>> = w

Invalid(typed) == Normal(typed) \notin SkipWords \cup RatingWords

\* C21: prompt_for_feedback returns a rating in 1..5 or no rating: an input
\* that is neither an integer in 1..5 nor s/skip in any letter case causes a
\* re-prompt and never a return, s/skip returns (None, None), and after any
\* run of invalid inputs followed by a valid rating the rating returned is
\* that one.
C21_OnlyValidRatingReturned ==
  LET typed == prompting.typed
      n     == Len(typed)
  IN  /\ \A i \in 1..(n - 1) : Invalid(typed[i])
      /\ (n > 0 /\ Invalid(typed[n]))
           => /\ prompting.pc \in {"rating", "returned", "raised"}
              /\ prompting.pc # "rating" => prompting.event # "none"
              /\ "invalid rating" \in prompting.out
      /\ (prompting.pc = "returned" /\ prompting.event = "none")
           => /\ n > 0
              /\ Normal(typed[n]) \in SkipWords
                   => (~prompting.rated /\ prompting.comment = NoneMsg)
              /\ Normal(typed[n]) \notin SkipWords
                   => /\ Normal(typed[n]) \in RatingWords
                      /\ prompting.rated
                      /\ prompting.rating = RatingOfWord(Normal(typed[n]))
      /\ prompting.rated => prompting.rating \in 1..5

\* two invalid inputs, then 5 with blanks around it, returned as 5
C21_Witness ==
  /\ prompting.pc = "returned"
  /\ Len(prompting.typed) = 3
  /\ prompting.typed[1] = <<"0">>
  /\ prompting.typed[2] = <<"x">>
  /\ prompting.typed[3] = <<" ", "5", " ">>
  /\ prompting.rated
  /\ prompting.rating = 5

\* C30: an interrupt or end-of-input at any prompt of prompt_for_feedback,
\* the comment prompt after a valid rating included, makes it return
\* (None, None) without raising, so no rating from that prompt is recorded.
C30_InterruptReturnsNothing ==
  prompting.event \in {"EOFError", "KeyboardInterrupt"}
    => /\ prompting.pc = "returned"
       /\ ~prompting.rated
       /\ prompting.comment = NoneMsg

\* an interrupt at the comment prompt, after 3 was entered
C30_Witness ==
  /\ prompting.event = "KeyboardInterrupt"
  /\ prompting.at = "comment"
  /\ prompting.entered = 3
  /\ prompting.pc = "returned"
  /\ ~prompting.rated

C28_FailedProbeSticks ==
  [][gateway.probe_failed =>
       /\ gateway'.last.op = "test_connection" => gateway'.last.returned = "False"
       /\ gateway'.last.op = "invoke_model" => /\ gateway'.last.raised
                                               /\ gateway'.last.request = "none"]_vars

\* C29: a generate_joke call that reaches the gateway goes through a client
\* created for the aws_profile of that call
C29_ClientOfTheCallsProfile ==
  service.last.invoked = 1 => service.last.through = service.last.aws_profile

\* the phases a call has reached so far come in the one order, the gateway
\* is invoked at most once and only after the prompt was built, and a
\* success response carries the cleaned text of what the gateway returned
PhasesInOrder ==
  LET order == <<"CategoryResolved", "PromptBuilt", "ModelInvoked">>
      ended == service.phase \in {"Success", "Failed", "Raised"}
      steps == IF ended THEN SubSeq(service.passed, 1, Len(service.passed) - 1)
               ELSE service.passed
  IN  /\ IsPrefix(steps, order)
      /\ ended => service.passed[Len(service.passed)] = service.phase
      /\ service.invocations <= 1
      /\ service.invocations = 1 <=> Len(steps) = 3
      /\ service.phase = "Success" =>
            /\ steps = order
            /\ service.gw.kind = "text"
            /\ service.response.joke_text = clean_joke_text(service.gw.text)

\* a call that has left its last phase has ended with a response
EndsInResponse ==
  (service.phase \notin {"Idle", "CategoryResolved", "PromptBuilt", "ModelInvoked"})
    => /\ service.phase \in {"Success", "Failed"}
       /\ service.raised = "none"
       /\ service.response.success <=> service.phase = "Success"

\* C23: a generate_joke call passes its phases in the one order (category,
\* prompt, gateway at most once, cleaning before success) and ends in
\* exactly one of a success response and a failure response
C23_PhasesThenOneEnding == PhasesInOrder /\ EndsInResponse
====
